---------------------------- MODULE Spec2Model ----------------------------
(***************************************************************************)
(* Pysnake Break: the Game object of main.py with its Snake (paddle),      *)
(* Ball, Brick field, PowerUp pickups and timed effects, as a state        *)
(* machine.  One action per handler: Game.handle_input for one event and   *)
(* Game.update followed by Game.draw for one pass of the main loop.        *)
(*                                                                         *)
(* Rectangles are pygame.Rect values: integer x, y (top-left) and a fixed  *)
(* width and height per kind of entity.                                    *)
(***************************************************************************)
EXTENDS Integers, Sequences, FiniteSets, TLC

(***************************************************************************)
(* Program constants (main.py, snake.py, powerup.py).                      *)
(***************************************************************************)
MAX_HIGH_SCORES == 5
BRICK_WIDTH == 75
BRICK_HEIGHT == 20
BRICK_PADDING == 5
BRICK_OFFSET_TOP == 50
BALL_RADIUS == 10
BALL_SPEED_X_INITIAL == 4
BALL_SPEED_Y_INITIAL == -4
SNAKE_MOVE_INTERVAL == 5
segment_size == 20
POWER_UP_SIZE == 15
POWER_UP_SPEED == 3
SNAKE_START_MARGIN == 50
BALL_START_GAP == 5

(***************************************************************************)
(* The instance that is explored.  Game(width, height, fps) takes the play *)
(* area as arguments; the effect duration and the level grids are scaled   *)
(* to that area so that a pickup can be collected, refreshed and expire    *)
(* within MaxTicks updates.                                                *)
(***************************************************************************)
screen_width == 85
screen_height == 195
POWER_UP_DURATION == 8
MaxTicks == 16
MaxRecollections == 2
MaxSnakeOps == 4
MaxGrow == 2
MaxBallSteps == 2

MAIN_MENU == "main_menu"
PLAYING == "playing"
GAME_OVER == "game_over"
PAUSED == "paused"
HIGH_SCORES_SCREEN == "high_scores_screen"
LEVEL_SELECTION == "level_selection"
None == "None"

Modes == {MAIN_MENU, PLAYING, GAME_OVER, PAUSED, HIGH_SCORES_SCREEN, LEVEL_SELECTION}

POWER_UP_TYPES == {"wider_paddle", "slow_ball"}

\* levels.py: each level is a list of rows, each row a string of brick codes.
ALL_LEVELS ==
  << << <<"P">>,
        <<"P">>,
        <<"P">> >>,
     << <<"S">> >> >>

\* levels.py BRICK_CONFIG: the codes that make a brick, and those whose
\* power_up_chance is 1.0 (random.random() < 1.0 always holds).
BRICK_CODES == {"S", "H", "P"}
CERTAIN_POWER_UP_CODES == {"P"}

(***************************************************************************)
(* pygame.Rect                                                             *)
(***************************************************************************)
Rect(x, y, w, h) == [x |-> x, y |-> y, w |-> w, h |-> h]

\* Rect.colliderect: the two rectangles share interior points.
colliderect(a, b) ==
  /\ a.x < b.x + b.w
  /\ a.x + a.w > b.x
  /\ a.y < b.y + b.h
  /\ a.y + a.h > b.y

\* One axis of Rect.clamp_ip: position p of an extent of size s moved inside
\* [0, limit); an extent too large to fit is centred.
clamp_axis(p, s, limit) ==
  IF s >= limit THEN (limit \div 2) - (s \div 2)
  ELSE IF p < 0 THEN 0
  ELSE IF p + s > limit THEN limit - s
  ELSE p

(***************************************************************************)
(* Snake (snake.py)                                                        *)
(***************************************************************************)
Directions == {"K_UP", "K_DOWN", "K_LEFT", "K_RIGHT"}

SegRect(seg) == Rect(seg[1], seg[2], segment_size, segment_size)

\* Snake.__init__
Snake(x, y) ==
  [ body |-> << <<x, y>>, <<x - segment_size, y>>, <<x - 2 * segment_size, y>> >>,
    direction |-> "K_RIGHT",
    grow_pending |-> 0,
    initial_x |-> x,
    initial_y |-> y ]

PopLast(s) == SubSeq(s, 1, Len(s) - 1)

\* A variant of Snake.move that drops the tail without inserting the new
\* head when no growth is pending.
Snake_move_shrinks(s) ==
  LET h == s.body[1]
      head == CASE s.direction = "K_UP" -> <<h[1], h[2] - segment_size>>
                [] s.direction = "K_DOWN" -> <<h[1], h[2] + segment_size>>
                [] s.direction = "K_LEFT" -> <<h[1] - segment_size, h[2]>>
                [] s.direction = "K_RIGHT" -> <<h[1] + segment_size, h[2]>>
                [] OTHER -> h
  IN IF s.grow_pending > 0
       THEN [s EXCEPT !.body = <<head>> \o s.body, !.grow_pending = @ - 1]
       ELSE [s EXCEPT !.body = PopLast(s.body)]

\* A variant of Snake.move that keeps the tail while growth is pending
\* without counting the pending growth down.
Snake_move_keeps_pending(s) ==
  LET h == s.body[1]
      head == CASE s.direction = "K_UP" -> <<h[1], h[2] - segment_size>>
                [] s.direction = "K_DOWN" -> <<h[1], h[2] + segment_size>>
                [] s.direction = "K_LEFT" -> <<h[1] - segment_size, h[2]>>
                [] s.direction = "K_RIGHT" -> <<h[1] + segment_size, h[2]>>
                [] OTHER -> h
  IN IF s.grow_pending > 0
       THEN [s EXCEPT !.body = <<head>> \o s.body]
       ELSE [s EXCEPT !.body = PopLast(<<head>> \o s.body)]

\* Snake.move
Snake_move(s) ==
  LET h == s.body[1]
      head == CASE s.direction = "K_UP" -> <<h[1], h[2] - segment_size>>
                [] s.direction = "K_DOWN" -> <<h[1], h[2] + segment_size>>
                [] s.direction = "K_LEFT" -> <<h[1] - segment_size, h[2]>>
                [] s.direction = "K_RIGHT" -> <<h[1] + segment_size, h[2]>>
                [] OTHER -> h
      grown == <<head>> \o s.body
  IN IF s.grow_pending > 0
       THEN [s EXCEPT !.body = grown, !.grow_pending = @ - 1]
       ELSE [s EXCEPT !.body = PopLast(grown)]

\* A variant of Snake.reset that rebuilds the body and the direction and
\* leaves the pending growth.
Snake_reset_keeps_pending(s) ==
  [s EXCEPT !.body = << <<s.initial_x, s.initial_y>>,
                        <<s.initial_x - segment_size, s.initial_y>>,
                        <<s.initial_x - 2 * segment_size, s.initial_y>> >>,
            !.direction = "K_RIGHT"]

\* Snake.reset (the method takes no argument besides self)
Snake_reset(s) ==
  [s EXCEPT !.body = << <<s.initial_x, s.initial_y>>,
                        <<s.initial_x - segment_size, s.initial_y>>,
                        <<s.initial_x - 2 * segment_size, s.initial_y>> >>,
            !.direction = "K_RIGHT",
            !.grow_pending = 0]

\* Snake.grow
Snake_grow(s, segments) == [s EXCEPT !.grow_pending = @ + segments]

\* A variant of Snake.handle_input that takes every arrow key, the one
\* opposite to the current direction included.
Snake_handle_input_any(s, key) ==
  IF key \in Directions THEN [s EXCEPT !.direction = key] ELSE s

\* Snake.handle_input for a KEYDOWN of `key`
Snake_handle_input(s, key) ==
  IF key = "K_UP" /\ s.direction /= "K_DOWN" THEN [s EXCEPT !.direction = "K_UP"]
  ELSE IF key = "K_DOWN" /\ s.direction /= "K_UP" THEN [s EXCEPT !.direction = "K_DOWN"]
  ELSE IF key = "K_LEFT" /\ s.direction /= "K_RIGHT" THEN [s EXCEPT !.direction = "K_LEFT"]
  ELSE IF key = "K_RIGHT" /\ s.direction /= "K_LEFT" THEN [s EXCEPT !.direction = "K_RIGHT"]
  ELSE s

\* Snake.check_collision_self
check_collision_self(s) ==
  \E i \in 2..Len(s.body) : colliderect(SegRect(s.body[1]), SegRect(s.body[i]))

\* Snake.check_collision_walls
check_collision_walls(s, width, height) ==
  LET head == s.body[1]
  IN ~(0 <= head[1] /\ head[1] < width /\ 0 <= head[2] /\ head[2] < height)


(***************************************************************************)
(* Brick (brick.py) and the brick field (main.py _create_bricks_layout)    *)
(***************************************************************************)
\* Brick.__init__
Brick(x, y, power_up_type) ==
  [x |-> x, y |-> y, is_active |-> TRUE, power_up_type |-> power_up_type]

BrickRect(b) == Rect(b.x, b.y, BRICK_WIDTH, BRICK_HEIGHT)

\* The cells of one row that make a brick, left to right; a blank and an
\* unknown code are skipped.
RECURSIVE RowCells(_, _, _, _)
RowCells(row_str, row_idx, col_idx, offset_left) ==
  IF col_idx >= Len(row_str) THEN <<>>
  ELSE LET char_code == row_str[col_idx + 1]
           rest == RowCells(row_str, row_idx, col_idx + 1, offset_left)
       IN IF char_code \in BRICK_CODES
            THEN << [x |-> offset_left + col_idx * (BRICK_WIDTH + BRICK_PADDING),
                     y |-> BRICK_OFFSET_TOP + row_idx * (BRICK_HEIGHT + BRICK_PADDING),
                     code |-> char_code] >> \o rest
            ELSE rest

RECURSIVE LevelCells(_, _, _)
LevelCells(level_data, row_idx, offset_left) ==
  IF row_idx >= Len(level_data) THEN <<>>
  ELSE RowCells(level_data[row_idx + 1], row_idx, 0, offset_left)
         \o LevelCells(level_data, row_idx + 1, offset_left)

\* random.choice(POWER_UP_TYPES) if random.random() < chance else None
PowerUpChoices(code) ==
  IF code \in CERTAIN_POWER_UP_CODES THEN POWER_UP_TYPES
  ELSE POWER_UP_TYPES \cup {None}

\* _create_bricks_layout: every brick group one call can return.
create_bricks_layout(level_data, width) ==
  LET num_level_rows == Len(level_data)
      num_level_cols == IF num_level_rows > 0 THEN Len(level_data[1]) ELSE 0
      total_bricks_width ==
        num_level_cols * BRICK_WIDTH + (num_level_cols - 1) * BRICK_PADDING
      dynamic_offset_left == (width - total_bricks_width) \div 2
      cells == LevelCells(level_data, 0, dynamic_offset_left)
      n == Len(cells)
  IN { [i \in 1..n |-> Brick(cells[i].x, cells[i].y, t[i])] :
         t \in { f \in [1..n -> POWER_UP_TYPES \cup {None}] :
                   \A i \in 1..n : f[i] \in PowerUpChoices(cells[i].code) } }

\* main.py 383: the field is not empty and no brick is active.
level_cleared(bricks) ==
  /\ ~(\E i \in 1..Len(bricks) : bricks[i].is_active)
  /\ Len(bricks) > 0

(***************************************************************************)
(* PowerUp (powerup.py)                                                    *)
(***************************************************************************)
\* PowerUp.__init__: a POWER_UP_SIZE square centred on (x, y).
PowerUp(x, y, type) ==
  [x |-> x - (POWER_UP_SIZE \div 2), y |-> y - (POWER_UP_SIZE \div 2), type |-> type]

PowerUpRect(p) == Rect(p.x, p.y, POWER_UP_SIZE, POWER_UP_SIZE)

\* A variant of PowerUp.update without the kill below the screen.
power_ups_update_keeps(pus, height) ==
  [i \in 1..Len(pus) |-> [pus[i] EXCEPT !.y = @ + POWER_UP_SPEED]]

\* Group.update(screen_height) over PowerUp.update: every pickup falls by
\* its speed; one whose top edge is below the screen is killed.
RECURSIVE power_ups_update(_, _)
power_ups_update(pus, height) ==
  IF pus = <<>> THEN <<>>
  ELSE LET p == [pus[1] EXCEPT !.y = @ + POWER_UP_SPEED]
           rest == power_ups_update(Tail(pus), height)
       IN IF p.y > height THEN rest ELSE <<p>> \o rest

(***************************************************************************)
(* Ball (ball.py)                                                          *)
(***************************************************************************)
\* Ball.__init__: the rect is a square of side 2 * radius centred on (x, y);
\* `original` is the pair original_speed_x, original_speed_y that
\* _activate_power_up attaches to the ball, <<>> while the attributes are
\* absent.
Ball(x, y, radius, speed_x, speed_y) ==
  [ x |-> x - radius, y |-> y - radius,
    speed_x |-> speed_x, speed_y |-> speed_y,
    initial_x |-> x, initial_y |-> y,
    original |-> <<>> ]

BallRect(b) == Rect(b.x, b.y, 2 * BALL_RADIUS, 2 * BALL_RADIUS)

\* A variant of Ball.reset that also puts the speed back to the initial one.
Ball_reset_with_speed(b) ==
  [b EXCEPT !.x = b.initial_x - BALL_RADIUS, !.y = b.initial_y - BALL_RADIUS,
            !.speed_x = BALL_SPEED_X_INITIAL, !.speed_y = BALL_SPEED_Y_INITIAL]

\* Ball.reset: rect.center = (initial_x, initial_y); the speed is kept.
Ball_reset(b) ==
  [b EXCEPT !.x = b.initial_x - BALL_RADIUS, !.y = b.initial_y - BALL_RADIUS]

\* rect.clamp_ip(Rect(0, 0, screen_width, screen_height))
Ball_clamp(b, width, height) ==
  [b EXCEPT !.x = clamp_axis(b.x, 2 * BALL_RADIUS, width),
            !.y = clamp_axis(b.y, 2 * BALL_RADIUS, height)]

\* The index of the first element of 1..n that satisfies Test, 0 if none.
FirstIndex(n, Test(_)) ==
  IF \E i \in 1..n : Test(i)
    THEN CHOOSE i \in 1..n : Test(i) /\ \A j \in 1..(i - 1) : ~Test(j)
    ELSE 0

\* Ball.update: the translated ball, then the wall, snake and brick phases.
Ball_walls(ball, width, height) ==
  LET b1 == [ball EXCEPT !.x = @ + ball.speed_x, !.y = @ + ball.speed_y]
      b2 == IF b1.x <= 0 \/ b1.x + 2 * BALL_RADIUS >= width
              THEN Ball_clamp([b1 EXCEPT !.speed_x = -@], width, height)
              ELSE b1
  IN IF b2.y <= 0
       THEN Ball_clamp([b2 EXCEPT !.speed_y = -@], width, height)
       ELSE b2

Ball_snake(b, snake_body_rects) ==
  LET hit == FirstIndex(Len(snake_body_rects),
                        LAMBDA i : colliderect(BallRect(b), SegRect(snake_body_rects[i])))
  IN IF hit = 0 THEN b
     ELSE [b EXCEPT !.speed_y = -@,
                    !.y = snake_body_rects[hit][2] - 2 * BALL_RADIUS]

\* A variant of the brick phase that breaks the brick without counting
\* the point.
Ball_bricks_unscored(b, bricks) ==
  LET hit == FirstIndex(Len(bricks),
                        LAMBDA i : /\ colliderect(BallRect(b), BrickRect(bricks[i]))
                                   /\ bricks[i].is_active)
  IN IF hit = 0
       THEN [ball |-> b, bricks |-> bricks, points |-> 0, spawned |-> <<>>, broke |-> 0]
       ELSE LET sy == -b.speed_y
                by == IF sy > 0 THEN bricks[hit].y - 2 * BALL_RADIUS
                               ELSE bricks[hit].y + BRICK_HEIGHT
            IN [ ball |-> [b EXCEPT !.speed_y = sy, !.y = by],
                 bricks |-> [bricks EXCEPT ![hit].is_active = FALSE],
                 points |-> 0,
                 spawned |-> <<>>,
                 broke |-> hit ]

\* A variant of the brick phase that spawns no pickup.
Ball_bricks_no_spawn(b, bricks) ==
  LET hit == FirstIndex(Len(bricks),
                        LAMBDA i : /\ colliderect(BallRect(b), BrickRect(bricks[i]))
                                   /\ bricks[i].is_active)
  IN IF hit = 0
       THEN [ball |-> b, bricks |-> bricks, points |-> 0, spawned |-> <<>>, broke |-> 0]
       ELSE LET sy == -b.speed_y
                by == IF sy > 0 THEN bricks[hit].y - 2 * BALL_RADIUS
                               ELSE bricks[hit].y + BRICK_HEIGHT
            IN [ ball |-> [b EXCEPT !.speed_y = sy, !.y = by],
                 bricks |-> [bricks EXCEPT ![hit].is_active = FALSE],
                 points |-> 1,
                 spawned |-> <<>>,
                 broke |-> hit ]

\* A variant of the brick phase without the is_active test: the first
\* overlapped brick is hit whether or not it was broken before.
Ball_bricks_rehit(b, bricks) ==
  LET hit == FirstIndex(Len(bricks),
                        LAMBDA i : colliderect(BallRect(b), BrickRect(bricks[i])))
  IN IF hit = 0
       THEN [ball |-> b, bricks |-> bricks, points |-> 0, spawned |-> <<>>, broke |-> 0]
       ELSE LET sy == -b.speed_y
                by == IF sy > 0 THEN bricks[hit].y - 2 * BALL_RADIUS
                               ELSE bricks[hit].y + BRICK_HEIGHT
            IN [ ball |-> [b EXCEPT !.speed_y = sy, !.y = by],
                 bricks |-> [bricks EXCEPT ![hit].is_active = FALSE],
                 points |-> 1,
                 spawned |-> <<>>,
                 broke |-> hit ]

\* A variant of the brick phase that counts two points for a brick.
Ball_bricks_two_points(b, bricks) ==
  LET hit == FirstIndex(Len(bricks),
                        LAMBDA i : /\ colliderect(BallRect(b), BrickRect(bricks[i]))
                                   /\ bricks[i].is_active)
  IN IF hit = 0
       THEN [ball |-> b, bricks |-> bricks, points |-> 0, spawned |-> <<>>, broke |-> 0]
       ELSE LET brick == bricks[hit]
                sy == -b.speed_y
                by == IF sy > 0 THEN brick.y - 2 * BALL_RADIUS
                               ELSE brick.y + BRICK_HEIGHT
            IN [ ball |-> [b EXCEPT !.speed_y = sy, !.y = by],
                 bricks |-> [bricks EXCEPT ![hit].is_active = FALSE],
                 points |-> 2,
                 spawned |-> IF brick.power_up_type /= None
                               THEN << PowerUp(brick.x + (BRICK_WIDTH \div 2),
                                               brick.y + (BRICK_HEIGHT \div 2),
                                               brick.power_up_type) >>
                               ELSE <<>>,
                 broke |-> hit ]

\* The brick phase: the first active brick among those the ball overlaps is
\* broken; the result names it (0 when none).
Ball_bricks(b, bricks) ==
  LET hit == FirstIndex(Len(bricks),
                        LAMBDA i : /\ colliderect(BallRect(b), BrickRect(bricks[i]))
                                   /\ bricks[i].is_active)
  IN IF hit = 0
       THEN [ball |-> b, bricks |-> bricks, points |-> 0, spawned |-> <<>>, broke |-> 0]
       ELSE LET brick == bricks[hit]
                sy == -b.speed_y
                by == IF sy > 0 THEN brick.y - 2 * BALL_RADIUS
                               ELSE brick.y + BRICK_HEIGHT
            IN [ ball |-> [b EXCEPT !.speed_y = sy, !.y = by],
                 bricks |-> [bricks EXCEPT ![hit].is_active = FALSE],
                 points |-> 1,
                 spawned |-> IF brick.power_up_type /= None
                               THEN << PowerUp(brick.x + (BRICK_WIDTH \div 2),
                                               brick.y + (BRICK_HEIGHT \div 2),
                                               brick.power_up_type) >>
                               ELSE <<>>,
                 broke |-> hit ]

Ball_update(ball, width, height, snake_body_rects, bricks_group) ==
  Ball_bricks(Ball_snake(Ball_walls(ball, width, height), snake_body_rects),
              bricks_group)


(***************************************************************************)
(* Game (main.py): timed effects                                           *)
(***************************************************************************)
NoEffects == [t \in {} |-> 0]

\* dict.get(type, 0)
effect_get(active, type) == IF type \in DOMAIN active THEN active[type] ELSE 0

effect_set(active, type, n) ==
  [t \in (DOMAIN active) \cup {type} |-> IF t = type THEN n ELSE active[t]]

\* speed //= 2, then a zero result on an axis whose stashed speed is not
\* zero becomes 1 or -1 by the sign of the stashed speed.
halved(speed, original_speed) ==
  LET h == speed \div 2
  IN IF h = 0 /\ original_speed /= 0
       THEN (IF original_speed > 0 THEN 1 ELSE -1)
       ELSE h

\* A variant of _activate_power_up that also gives wider_paddle an entry in
\* the registry.
activate_power_up_timed_paddle(power_up_type, snake, ball, active) ==
  IF power_up_type = "wider_paddle"
    THEN [snake |-> Snake_grow(snake, 2), ball |-> ball,
          active |-> effect_set(active, "wider_paddle", POWER_UP_DURATION)]
  ELSE IF power_up_type = "slow_ball"
    THEN LET slow == ~(effect_get(active, "slow_ball") > 0)
             stash == IF ball.original = <<>>
                        THEN <<ball.speed_x, ball.speed_y>>
                        ELSE ball.original
             b == IF slow
                    THEN [ball EXCEPT !.original = stash,
                                      !.speed_x = halved(ball.speed_x, stash[1]),
                                      !.speed_y = halved(ball.speed_y, stash[2])]
                    ELSE ball
         IN [snake |-> snake, ball |-> b,
             active |-> effect_set(active, "slow_ball", POWER_UP_DURATION)]
  ELSE [snake |-> snake, ball |-> ball, active |-> active]

\* Game._activate_power_up on the paddle, the ball and the registry.
activate_power_up(power_up_type, snake, ball, active) ==
  IF power_up_type = "wider_paddle"
    THEN [snake |-> Snake_grow(snake, 2), ball |-> ball, active |-> active]
  ELSE IF power_up_type = "slow_ball"
    THEN LET slow == ~(effect_get(active, "slow_ball") > 0)
             stash == IF ball.original = <<>>
                        THEN <<ball.speed_x, ball.speed_y>>
                        ELSE ball.original
             b == IF slow
                    THEN [ball EXCEPT !.original = stash,
                                      !.speed_x = halved(ball.speed_x, stash[1]),
                                      !.speed_y = halved(ball.speed_y, stash[2])]
                    ELSE ball
         IN [snake |-> snake, ball |-> b,
             active |-> effect_set(active, "slow_ball", POWER_UP_DURATION)]
  ELSE [snake |-> snake, ball |-> ball, active |-> active]

\* A variant of _deactivate_power_up that deletes the stash without
\* assigning it back to the speed.
deactivate_power_up_drops_stash(power_up_type, ball) ==
  IF power_up_type = "slow_ball" /\ ball.original /= <<>>
    THEN [ball EXCEPT !.original = <<>>]
    ELSE ball

\* Game._deactivate_power_up
deactivate_power_up(power_up_type, ball) ==
  IF power_up_type = "slow_ball" /\ ball.original /= <<>>
    THEN [ball EXCEPT !.speed_x = ball.original[1],
                      !.speed_y = ball.original[2],
                      !.original = <<>>]
    ELSE ball

\* A variant of _update_power_up_effects that deletes an entry at zero
\* without deactivating the effect.
update_power_up_effects_delete_only(ball, active) ==
  LET expired == {t \in DOMAIN active : ~(active[t] > 0)}
      kept == (DOMAIN active) \ expired
  IN [ ball |-> ball,
       active |-> [t \in kept |-> active[t] - 1],
       expired |-> expired ]

\* Game._update_power_up_effects: an entry above zero is decremented, an
\* entry at zero is deactivated and deleted.
update_power_up_effects(ball, active) ==
  LET expired == {t \in DOMAIN active : ~(active[t] > 0)}
      kept == (DOMAIN active) \ expired
  IN [ ball |-> IF "slow_ball" \in expired
                  THEN deactivate_power_up("slow_ball", ball)
                  ELSE ball,
       active |-> [t \in kept |-> active[t] - 1],
       expired |-> expired ]

\* main.py 371-375: every pickup that the head rectangle overlaps is
\* activated and killed, in the order of the group.
RECURSIVE collect_power_ups(_, _, _, _)
collect_power_ups(pus, snake, ball, active) ==
  IF pus = <<>>
    THEN [snake |-> snake, ball |-> ball, active |-> active,
          power_ups |-> <<>>, collected |-> <<>>]
  ELSE IF colliderect(SegRect(snake.body[1]), PowerUpRect(pus[1]))
    THEN LET a == activate_power_up(pus[1].type, snake, ball, active)
             r == collect_power_ups(Tail(pus), a.snake, a.ball, a.active)
         IN [r EXCEPT !.collected = <<pus[1].type>> \o @]
  ELSE LET r == collect_power_ups(Tail(pus), snake, ball, active)
       IN [r EXCEPT !.power_ups = <<pus[1]>> \o @]

(***************************************************************************)
(* Game (main.py): high scores                                             *)
(***************************************************************************)
\* list.sort(key=score, reverse=True): stable, descending by score.
RECURSIVE insert_desc(_, _)
insert_desc(sorted, e) ==
  IF sorted = <<>> THEN <<e>>
  ELSE IF sorted[1].score >= e.score
    THEN <<sorted[1]>> \o insert_desc(Tail(sorted), e)
    ELSE <<e>> \o sorted

RECURSIVE sort_desc(_)
sort_desc(list) ==
  IF list = <<>> THEN <<>>
  ELSE insert_desc(sort_desc(PopLast(list)), list[Len(list)])

Truncate(list, n) == SubSeq(list, 1, IF Len(list) < n THEN Len(list) ELSE n)

\* A variant of _check_and_add_high_score that appends the record and cuts
\* the list without sorting it.
check_and_add_high_score_unsorted(scores, current_score) ==
  Truncate(Append(scores, [name |-> "PLY", score |-> current_score]),
           MAX_HIGH_SCORES)

\* Game._check_and_add_high_score
check_and_add_high_score(scores, current_score) ==
  Truncate(sort_desc(Append(scores, [name |-> "PLY", score |-> current_score])),
           MAX_HIGH_SCORES)


(***************************************************************************)
(* Game (main.py): state                                                   *)
(***************************************************************************)
VARIABLES
  pc,                     \* "loop", "exited" (running was False), "crashed"
                          \* or "not_constructed"
  game_state,
  previous_game_state,
  game_over,
  running,
  score,
  snake_move_counter,
  current_level_index,
  high_scores,
  power_up_active,
  player_snake,
  game_ball,
  all_bricks,
  power_ups,
  level_selection_rects,  \* the level indexes draw has laid out a rect for
  ticks,                  \* updates made in PLAYING (bounded by MaxTicks)
  report,                 \* what the most recent update call did
  slow_ball_log           \* history: the velocity the running slow_ball
                          \* effect was activated at, and what followed

vars ==
  << pc, game_state, previous_game_state, game_over, running, score,
     snake_move_counter, current_level_index, high_scores, power_up_active,
     player_snake, game_ball, all_bricks, power_ups, level_selection_rects,
     ticks, report, slow_ball_log >>

\* The entities and counters that one tick of the simulation works on.
sim ==
  << score, snake_move_counter, current_level_index, power_up_active,
     player_snake, game_ball, all_bricks, power_ups >>

NoReport ==
  [ kind |-> "none", moved |-> FALSE, collected |-> <<>>, expired |-> {},
    broke |-> 0, cleared |-> FALSE, over |-> FALSE ]

NoLog == [ phase |-> "none", v |-> <<>>, more |-> 0 ]

\* The high-score file as _load_high_scores finds it: absent, one that
\* cannot be read or parsed or whose JSON value is not a list, or a JSON
\* list.  An entry of the list is a record (with or without a "score",
\* which is an integer or some other JSON value) or a plain number.
JsonInt(n) == [type |-> "int", int |-> n]
JsonString == [type |-> "string", int |-> 0]
NO_FILE == [exists |-> FALSE, content |-> "list", entries |-> <<>>]
JsonFile(entries) == [exists |-> TRUE, content |-> "list", entries |-> entries]
BadFile(content) == [exists |-> TRUE, content |-> content, entries |-> <<>>]
BAD_CONTENTS == {"unreadable", "not_json", "not_a_list"}

\* isinstance(entry, dict): the JSON scalars carry their type.
is_dict(e) == "type" \notin DOMAIN e

\* isinstance(entry.get("score"), int) on a record
has_int_score(e) == "score" \in DOMAIN e /\ e.score.type = "int"

\* The files the scores are loaded from: none; one with records that have
\* no integer score among records out of order; one with six records; the
\* files that cannot be read or parsed or hold no list; and one whose list
\* holds numbers.
HIGH_SCORES_FILES ==
  { NO_FILE,
    JsonFile(<< [name |-> "PLY", score |-> JsonInt(0)],
                [name |-> "PLY", score |-> JsonString],
                [name |-> "PLY"],
                [name |-> "PLY", score |-> JsonInt(9)],
                [name |-> "PLY", score |-> JsonInt(0)],
                [name |-> "PLY", score |-> JsonInt(0)],
                [name |-> "PLY", score |-> JsonInt(0)] >>),
    JsonFile(<< [name |-> "PLY", score |-> JsonInt(9)],
                [name |-> "PLY", score |-> JsonInt(8)],
                [name |-> "PLY", score |-> JsonInt(7)],
                [name |-> "PLY", score |-> JsonInt(6)],
                [name |-> "PLY", score |-> JsonInt(5)],
                [name |-> "PLY", score |-> JsonInt(4)] >>),
    JsonFile(<< JsonInt(3), JsonInt(1) >>) }
    \cup { BadFile(c) : c \in BAD_CONTENTS }

\* Game._load_high_scores raises: entry.get is called on every entry of the
\* list, and an entry that is not a record has no such method; the
\* AttributeError is not among the exceptions the method catches.
load_high_scores_raises(file) ==
  /\ file.exists
  /\ file.content = "list"
  /\ \E i \in 1..Len(file.entries) : ~is_dict(file.entries[i])

\* Game._load_high_scores when it returns: no file gives the empty list, as
\* do a file that cannot be read (IOError), one that is not JSON
\* (JSONDecodeError) and one whose value is not a list; otherwise the
\* records with an integer score are kept and sorted by score, highest
\* first.  The list is not cut to MAX_HIGH_SCORES here.
load_high_scores(file) ==
  IF ~file.exists \/ file.content /= "list" THEN <<>>
  ELSE LET ints == SelectSeq(file.entries, LAMBDA e : is_dict(e) /\ has_int_score(e))
       IN sort_desc([i \in 1..Len(ints) |->
                       [name |-> ints[i].name, score |-> ints[i].score.int]])

\* What _load_high_scores leaves in memory when there is no file.
LOADED_HIGH_SCORES == { load_high_scores(NO_FILE) }

\* Snake.reset and Ball.reset declare no parameter besides self;
\* _prepare_game_elements calls both with two arguments.
Snake_reset_params == 0
Ball_reset_params == 0
RESET_CALL_ARGS == 2

\* A call with the wrong number of arguments raises TypeError.
call_raises(given, declared) == given /= declared

\* Game._prepare_game_elements for a game whose snake and ball exist (they
\* do from the constructor on).  `raised` tells whether the call ended in
\* an exception; what was assigned before it stays assigned.
prepare_game_elements(snake, ball, counter, pus, active) ==
  IF call_raises(RESET_CALL_ARGS, Snake_reset_params)
    THEN [raised |-> TRUE, snake |-> snake, ball |-> ball,
          counter |-> counter, power_ups |-> pus, active |-> active]
  ELSE IF call_raises(RESET_CALL_ARGS, Ball_reset_params)
    THEN [raised |-> TRUE, snake |-> Snake_reset(snake), ball |-> ball,
          counter |-> counter, power_ups |-> pus, active |-> active]
  ELSE [raised |-> FALSE, snake |-> Snake_reset(snake), ball |-> Ball_reset(ball),
        counter |-> 0, power_ups |-> <<>>, active |-> NoEffects]

\* A variant of the index computation without the wrap to level 0.
next_level_index_no_wrap(load_specific_index, current) ==
  IF load_specific_index /= -1 THEN load_specific_index ELSE current + 1

\* The level index _load_level settles on (-1 asks for the next level).
next_level_index(load_specific_index, current) ==
  LET idx == IF load_specific_index /= -1 THEN load_specific_index ELSE current + 1
  IN IF idx >= Len(ALL_LEVELS) THEN 0 ELSE idx

\* Game._load_level, applied to the entities as they are when it is called.
\* `then_state` is the mode the caller sets after the call returns and
\* `else_state` the mode that stays when the call raises.
load_level(load_specific_index, snake, ball, counter, pus, active, then_state, else_state) ==
  LET idx == next_level_index(load_specific_index, current_level_index)
      r == prepare_game_elements(snake, ball, counter, pus, active)
  IN /\ current_level_index' = idx
     /\ all_bricks' \in create_bricks_layout(ALL_LEVELS[idx + 1], screen_width)
     /\ player_snake' = r.snake
     /\ game_ball' = r.ball
     /\ snake_move_counter' = r.counter
     /\ power_ups' = r.power_ups
     /\ power_up_active' = r.active
     /\ game_over' = IF r.raised THEN game_over ELSE FALSE
     /\ game_state' = IF r.raised THEN else_state ELSE then_state
     /\ pc' = IF r.raised THEN "crashed" ELSE pc

\* Game.__init__: the state the constructor leaves: MAIN_MENU, the first
\* level loaded with a new snake and a new ball.
Constructed(loaded) ==
  /\ pc = "loop"
  /\ game_state = MAIN_MENU
  /\ previous_game_state = None
  /\ game_over = FALSE
  /\ running = TRUE
  /\ score = 0
  /\ snake_move_counter = 0
  /\ current_level_index = 0
  /\ high_scores \in loaded
  /\ power_up_active = NoEffects
  /\ player_snake = Snake(screen_width \div 2, screen_height - SNAKE_START_MARGIN)
  /\ game_ball = Ball(screen_width \div 2,
                      (screen_height - SNAKE_START_MARGIN) - BALL_RADIUS - BALL_START_GAP,
                      BALL_RADIUS, BALL_SPEED_X_INITIAL, BALL_SPEED_Y_INITIAL)
  /\ all_bricks \in create_bricks_layout(ALL_LEVELS[1], screen_width)
  /\ power_ups = <<>>
  /\ level_selection_rects = {}
  /\ ticks = 0
  /\ report = NoReport
  /\ slow_ball_log = NoLog

\* The game as constructed where there is no high-score file.
Init == Constructed(LOADED_HIGH_SCORES)

(***************************************************************************)
(* Game.handle_input                                                       *)
(***************************************************************************)
KEYS ==
  { "K_0", "K_1", "K_2", "K_3", "K_4", "K_9", "K_p", "K_m", "K_r", "K_ESCAPE",
    "K_UP", "K_DOWN", "K_LEFT", "K_RIGHT" }

\* event.key - pygame.K_1 for the keys K_1..K_9, 9 for K_0 when there are
\* ten levels or more, -1 otherwise.
key_level_idx(key) ==
  CASE key = "K_1" -> 0 [] key = "K_2" -> 1 [] key = "K_3" -> 2
    [] key = "K_4" -> 3 [] key = "K_9" -> 8
    [] key = "K_0" /\ Len(ALL_LEVELS) >= 10 -> 9
    [] OTHER -> -1

\* Game.reset_game
reset_game ==
  /\ score' = 0
  /\ load_level(0, player_snake, game_ball, snake_move_counter, power_ups,
                power_up_active, PLAYING, game_state)
  /\ UNCHANGED << running, previous_game_state, high_scores >>

\* Game._setup_specific_level
setup_specific_level(level_idx) ==
  /\ score' = 0
  /\ load_level(level_idx, player_snake, game_ball, snake_move_counter, power_ups,
                power_up_active, PLAYING, game_state)
  /\ UNCHANGED << running, previous_game_state, high_scores >>

\* main.py 424-425: handle_input is called for one event of the batch that
\* pygame.event.get() returns.  The event that clears `running` is taken as
\* the last one of its batch (the window is closing): update and draw
\* follow and the loop ends.
in_batch == pc = "loop" /\ running

\* pygame.QUIT in any mode
HandleQuit ==
  /\ in_batch
  /\ running' = FALSE
  /\ UNCHANGED << pc, game_state, previous_game_state, game_over, high_scores,
                  sim, level_selection_rects, ticks, report, slow_ball_log >>

\* Game._handle_menu_input
HandleMenuKey(key) ==
  /\ in_batch /\ game_state = MAIN_MENU
  /\ \/ /\ key = "K_1"
        /\ reset_game
     \/ /\ key = "K_2"
        /\ game_state' = HIGH_SCORES_SCREEN
        /\ UNCHANGED << pc, running, previous_game_state, game_over, high_scores, sim >>
     \/ /\ key = "K_3"
        /\ game_state' = LEVEL_SELECTION
        /\ UNCHANGED << pc, running, previous_game_state, game_over, high_scores, sim >>
     \/ /\ key = "K_4"
        /\ running' = FALSE
        /\ UNCHANGED << pc, game_state, previous_game_state, game_over, high_scores, sim >>
  /\ UNCHANGED << level_selection_rects, ticks, report, slow_ball_log >>

\* Game._handle_level_selection_input, a key
HandleLevelSelectionKey(key) ==
  /\ in_batch /\ game_state = LEVEL_SELECTION
  /\ \/ /\ key \in {"K_ESCAPE", "K_m"}
        /\ game_state' = MAIN_MENU
        /\ UNCHANGED << pc, running, previous_game_state, game_over, high_scores, sim >>
     \/ /\ key \notin {"K_ESCAPE", "K_m"}
        /\ 0 <= key_level_idx(key) /\ key_level_idx(key) < Len(ALL_LEVELS)
        /\ setup_specific_level(key_level_idx(key))
  /\ UNCHANGED << level_selection_rects, ticks, report, slow_ball_log >>

\* Game._handle_level_selection_input, a left click inside the rect that
\* draw laid out for level idx
HandleLevelSelectionClick(idx) ==
  /\ in_batch /\ game_state = LEVEL_SELECTION
  /\ idx \in level_selection_rects
  /\ setup_specific_level(idx)
  /\ UNCHANGED << level_selection_rects, ticks, report, slow_ball_log >>

\* A variant of _handle_high_scores_input that leaves the screen the way
\* the pause menu is left.
HandleHighScoresKey_resumes(key) ==
  /\ in_batch /\ game_state = HIGH_SCORES_SCREEN
  /\ key \in {"K_ESCAPE", "K_m"}
  /\ game_state' = IF previous_game_state /= None
                     THEN previous_game_state ELSE PLAYING
  /\ UNCHANGED << pc, running, previous_game_state, game_over, high_scores,
                  sim, level_selection_rects, ticks, report, slow_ball_log >>

\* Game._handle_high_scores_input
HandleHighScoresKey(key) ==
  /\ in_batch /\ game_state = HIGH_SCORES_SCREEN
  /\ key \in {"K_ESCAPE", "K_m"}
  /\ game_state' = MAIN_MENU
  /\ UNCHANGED << pc, running, previous_game_state, game_over, high_scores,
                  sim, level_selection_rects, ticks, report, slow_ball_log >>

\* Game._handle_pause_input
HandlePauseKey(key) ==
  /\ in_batch /\ game_state = PAUSED
  /\ \/ /\ key \in {"K_1", "K_p", "K_ESCAPE"}
        /\ game_state' = IF previous_game_state /= None
                           THEN previous_game_state ELSE PLAYING
        /\ UNCHANGED << pc, game_over, sim >>
     \/ /\ key = "K_2"
        /\ load_level(current_level_index, player_snake, game_ball,
                      snake_move_counter, power_ups, power_up_active,
                      PLAYING, game_state)
        /\ UNCHANGED score
     \/ /\ key = "K_3"
        /\ load_level(0, player_snake, game_ball, snake_move_counter, power_ups,
                      power_up_active, MAIN_MENU, MAIN_MENU)
        /\ UNCHANGED score
  /\ UNCHANGED << running, previous_game_state, high_scores,
                  level_selection_rects, ticks, report, slow_ball_log >>

\* handle_input in PLAYING: restart while game_over is set, else pause or
\* steer the snake
HandlePlayingKey(key) ==
  /\ in_batch /\ game_state = PLAYING
  /\ IF game_over
       THEN /\ key = "K_r"
            /\ reset_game
       ELSE \/ /\ key \in {"K_p", "K_ESCAPE"}
               /\ previous_game_state' = game_state
               /\ game_state' = PAUSED
               /\ UNCHANGED << pc, running, game_over, high_scores, sim >>
            \/ /\ key \notin {"K_p", "K_ESCAPE"}
               /\ player_snake' = Snake_handle_input(player_snake, key)
               /\ UNCHANGED << pc, game_state, previous_game_state, running, game_over,
                               high_scores, score, snake_move_counter,
                               current_level_index, power_up_active, game_ball,
                               all_bricks, power_ups >>
  /\ UNCHANGED << level_selection_rects, ticks, report, slow_ball_log >>

\* handle_input in GAME_OVER
HandleGameOverKey(key) ==
  /\ in_batch /\ game_state = GAME_OVER
  /\ key = "K_r"
  /\ reset_game
  /\ UNCHANGED << level_selection_rects, ticks, report, slow_ball_log >>

HandleInput ==
  \/ HandleQuit
  \/ \E key \in KEYS :
       \/ HandleMenuKey(key)
       \/ HandleLevelSelectionKey(key)
       \/ HandleHighScoresKey(key)
       \/ HandlePauseKey(key)
       \/ HandlePlayingKey(key)
       \/ HandleGameOverKey(key)
  \/ \E idx \in 0..(Len(ALL_LEVELS) - 1) : HandleLevelSelectionClick(idx)

\* The play loop entered on the constructed object: game_state is assigned
\* PLAYING directly, nothing else is touched.  (reset_game and
\* _setup_specific_level, which make this assignment in main(), call
\* _load_level first.)
DriverEnterPlaying ==
  /\ pc = "loop" /\ running /\ game_state = MAIN_MENU
  /\ game_state' = PLAYING
  /\ UNCHANGED << pc, running, previous_game_state, game_over, high_scores, sim,
                  level_selection_rects, ticks, report, slow_ball_log >>


(***************************************************************************)
(* Game.update and Game.draw                                               *)
(***************************************************************************)
\* A variant of the guard of update that tests the game_over flag alone.
update_runs_unless_over(mode, over) == ~over

\* A variant of the guard of update that lets update run in GAME_OVER too.
update_runs_in_game_over(mode, over) == mode \in {PLAYING, GAME_OVER}

\* main.py 364: the guard of update
update_runs(mode, over) == mode = PLAYING /\ ~over

\* A variant of the game-over test without the self-collision check.
is_game_over_without_self(snake, ball, width, height) ==
  \/ check_collision_walls(snake, width, height)
  \/ ball.y > height

\* main.py 388-390
is_game_over(snake, ball, width, height) ==
  \/ check_collision_self(snake)
  \/ check_collision_walls(snake, width, height)
  \/ ball.y > height

\* A variant of the tick in which the timers are looked at before the
\* pickups are collected.
playing_tick_effects_first(snake, ball, bricks, pus, active, counter, points_so_far) ==
  LET counter1 == counter + 1
      moved == counter1 >= SNAKE_MOVE_INTERVAL
      snake1 == IF moved THEN Snake_move(snake) ELSE snake
      counter2 == IF moved THEN 0 ELSE counter1
      fallen == power_ups_update(pus, screen_height)
      e == update_power_up_effects(ball, active)
      c == collect_power_ups(fallen, snake1, e.ball, e.active)
      u == Ball_update(c.ball, screen_width, screen_height, c.snake.body, bricks)
  IN [ snake |-> c.snake,
       ball |-> u.ball,
       bricks |-> u.bricks,
       power_ups |-> c.power_ups \o u.spawned,
       active |-> c.active,
       counter |-> counter2,
       score |-> points_so_far + u.points,
       moved |-> moved,
       collected |-> c.collected,
       expired |-> e.expired,
       broke |-> u.broke,
       after_collect |-> c.ball,
       active_after_collect |-> c.active,
       after_effects |-> c.ball ]

\* A variant of the tick in which the paddle steps when the counter has
\* passed SNAKE_MOVE_INTERVAL.
playing_tick_late_step(snake, ball, bricks, pus, active, counter, points_so_far) ==
  LET counter1 == counter + 1
      moved == counter1 > SNAKE_MOVE_INTERVAL
      snake1 == IF moved THEN Snake_move(snake) ELSE snake
      counter2 == IF moved THEN 0 ELSE counter1
      fallen == power_ups_update(pus, screen_height)
      c == collect_power_ups(fallen, snake1, ball, active)
      e == update_power_up_effects(c.ball, c.active)
      u == Ball_update(e.ball, screen_width, screen_height, c.snake.body, bricks)
  IN [ snake |-> c.snake,
       ball |-> u.ball,
       bricks |-> u.bricks,
       power_ups |-> c.power_ups \o u.spawned,
       active |-> e.active,
       counter |-> counter2,
       score |-> points_so_far + u.points,
       moved |-> moved,
       collected |-> c.collected,
       expired |-> e.expired,
       broke |-> u.broke,
       after_collect |-> c.ball,
       active_after_collect |-> c.active,
       after_effects |-> e.ball ]

\* main.py 365-381: the simulation phases of one PLAYING update, up to the
\* score; the level-clear and game-over decisions follow in UpdatePlaying.
\* after_collect and after_effects are the ball between the phases.
playing_tick(snake, ball, bricks, pus, active, counter, points_so_far) ==
  LET counter1 == counter + 1
      moved == counter1 >= SNAKE_MOVE_INTERVAL
      snake1 == IF moved THEN Snake_move(snake) ELSE snake
      counter2 == IF moved THEN 0 ELSE counter1
      fallen == power_ups_update(pus, screen_height)
      c == collect_power_ups(fallen, snake1, ball, active)
      e == update_power_up_effects(c.ball, c.active)
      u == Ball_update(e.ball, screen_width, screen_height, c.snake.body, bricks)
  IN [ snake |-> c.snake,
       ball |-> u.ball,
       bricks |-> u.bricks,
       power_ups |-> c.power_ups \o u.spawned,
       active |-> e.active,
       counter |-> counter2,
       score |-> points_so_far + u.points,
       moved |-> moved,
       collected |-> c.collected,
       expired |-> e.expired,
       broke |-> u.broke,
       after_collect |-> c.ball,
       active_after_collect |-> c.active,
       after_effects |-> e.ball ]

\* How many times x occurs in seq.
count_of(seq, x) == Cardinality({i \in 1..Len(seq) : seq[i] = x})

\* The history of the slow_ball effect over one tick: a collection that
\* finds no entry in the registry starts an effect at the velocity the ball
\* has then; later collections and the expiry are noted.
log_tick(log, ball, active, collected, expired) ==
  LET n == count_of(collected, "slow_ball")
  IN IF n > 0 /\ "slow_ball" \notin DOMAIN active
       THEN [ phase |-> "active", v |-> <<ball.speed_x, ball.speed_y>>, more |-> n - 1 ]
     ELSE IF n > 0 THEN [log EXCEPT !.more = @ + n]
     ELSE IF "slow_ball" \in expired THEN [log EXCEPT !.phase = "expired"]
     ELSE log

\* Game.draw: only the level selection screen leaves a trace in the state,
\* the rects it lays out for mouse clicks.
drawn_rects(mode, rects) ==
  IF mode = LEVEL_SELECTION THEN 0..(Len(ALL_LEVELS) - 1) ELSE rects

\* update() outside PLAYING (or with game_over set) does nothing; draw()
\* follows, and the loop ends when running is False.
UpdateIdle ==
  /\ pc = "loop"
  /\ ~update_runs(game_state, game_over)
  /\ level_selection_rects' = drawn_rects(game_state, level_selection_rects)
  /\ pc' = IF running THEN "loop" ELSE "exited"
  /\ report' = [NoReport EXCEPT !.kind = "idle"]
  /\ UNCHANGED << game_state, previous_game_state, game_over, running,
                  high_scores, sim, ticks, slow_ball_log >>

\* A variant of update in PLAYING that sets the game_over flag and leaves
\* the mode for a later call to change.
UpdatePlaying_flag_only ==
  /\ pc = "loop"
  /\ update_runs(game_state, game_over)
  /\ ticks < MaxTicks
  /\ ticks' = ticks + 1
  /\ LET t == playing_tick(player_snake, game_ball, all_bricks, power_ups,
                           power_up_active, snake_move_counter, score)
         cleared == level_cleared(t.bricks)
         over == ~cleared /\ is_game_over(t.snake, t.ball, screen_width, screen_height)
     IN /\ score' = t.score
        /\ report' = [ kind |-> "tick", moved |-> t.moved, collected |-> t.collected,
                       expired |-> t.expired, broke |-> t.broke,
                       cleared |-> cleared, over |-> over ]
        /\ slow_ball_log' = log_tick(slow_ball_log, game_ball, power_up_active,
                                     t.collected, t.expired)
        /\ IF cleared
             THEN /\ load_level(-1, t.snake, t.ball, t.counter, t.power_ups, t.active,
                                game_state, game_state)
                  /\ IF pc' = "crashed"
                       THEN UNCHANGED level_selection_rects
                       ELSE level_selection_rects' =
                              drawn_rects(game_state', level_selection_rects)
                  /\ UNCHANGED high_scores
             ELSE /\ player_snake' = t.snake
                  /\ game_ball' = t.ball
                  /\ all_bricks' = t.bricks
                  /\ power_ups' = t.power_ups
                  /\ power_up_active' = t.active
                  /\ snake_move_counter' = t.counter
                  /\ UNCHANGED current_level_index
                  /\ game_over' = over
                  /\ game_state' = game_state
                  /\ high_scores' = IF over
                                      THEN check_and_add_high_score(high_scores, t.score)
                                      ELSE high_scores
                  /\ level_selection_rects' = level_selection_rects
                  /\ pc' = IF running THEN "loop" ELSE "exited"
  /\ UNCHANGED << previous_game_state, running >>

\* update() in PLAYING, then draw()
UpdatePlaying ==
  /\ pc = "loop"
  /\ update_runs(game_state, game_over)
  /\ ticks < MaxTicks
  /\ ticks' = ticks + 1
  /\ LET t == playing_tick(player_snake, game_ball, all_bricks, power_ups,
                           power_up_active, snake_move_counter, score)
         cleared == level_cleared(t.bricks)
         over == ~cleared /\ is_game_over(t.snake, t.ball, screen_width, screen_height)
     IN /\ score' = t.score
        /\ report' = [ kind |-> "tick", moved |-> t.moved, collected |-> t.collected,
                       expired |-> t.expired, broke |-> t.broke,
                       cleared |-> cleared, over |-> over ]
        /\ slow_ball_log' = log_tick(slow_ball_log, game_ball, power_up_active,
                                     t.collected, t.expired)
        /\ IF cleared
             THEN /\ load_level(-1, t.snake, t.ball, t.counter, t.power_ups, t.active,
                                game_state, game_state)
                  /\ IF pc' = "crashed"
                       THEN UNCHANGED level_selection_rects
                       ELSE level_selection_rects' =
                              drawn_rects(game_state', level_selection_rects)
                  /\ UNCHANGED high_scores
             ELSE /\ player_snake' = t.snake
                  /\ game_ball' = t.ball
                  /\ all_bricks' = t.bricks
                  /\ power_ups' = t.power_ups
                  /\ power_up_active' = t.active
                  /\ snake_move_counter' = t.counter
                  /\ UNCHANGED current_level_index
                  /\ game_over' = over
                  /\ game_state' = IF over THEN GAME_OVER ELSE game_state
                  /\ high_scores' = IF over
                                      THEN check_and_add_high_score(high_scores, t.score)
                                      ELSE high_scores
                  /\ level_selection_rects' = level_selection_rects
                  /\ pc' = IF running THEN "loop" ELSE "exited"
  /\ UNCHANGED << previous_game_state, running >>

Update == UpdateIdle \/ UpdatePlaying

Next == HandleInput \/ Update \/ DriverEnterPlaying

Spec == Init /\ [][Next]_vars

(***************************************************************************)
(* The timed effect under every schedule.  Which pickups reach the head in *)
(* a tick and which walls, segments and bricks the ball meets is decided   *)
(* by the geometry of the level; here every arrival of a slow_ball pickup  *)
(* and every bounce of Ball.update is allowed in every tick, on the        *)
(* velocity, the stash and the registry that update works on.              *)
(***************************************************************************)
EffectsTick ==
  /\ pc = "loop"
  /\ update_runs(game_state, game_over)
  /\ \E n \in 0..1, bounce_x \in BOOLEAN, bounce_y \in BOOLEAN :
       /\ (n = 1 /\ "slow_ball" \in DOMAIN power_up_active)
            => slow_ball_log.more < MaxRecollections
       /\ LET a == IF n = 1
                     THEN activate_power_up("slow_ball", player_snake, game_ball,
                                            power_up_active)
                     ELSE [snake |-> player_snake, ball |-> game_ball,
                           active |-> power_up_active]
              e == update_power_up_effects(a.ball, a.active)
              collected == IF n = 1 THEN <<"slow_ball">> ELSE <<>>
          IN /\ game_ball' = [e.ball EXCEPT !.speed_x = IF bounce_x THEN -@ ELSE @,
                                            !.speed_y = IF bounce_y THEN -@ ELSE @]
             /\ power_up_active' = e.active
             /\ report' = [NoReport EXCEPT !.kind = "tick", !.collected = collected,
                                           !.expired = e.expired]
             /\ slow_ball_log' = log_tick(slow_ball_log, game_ball, power_up_active,
                                          collected, e.expired)
  /\ UNCHANGED << pc, game_state, previous_game_state, game_over, running, score,
                  snake_move_counter, current_level_index, high_scores,
                  player_snake, all_bricks, power_ups, level_selection_rects,
                  ticks >>

NextEffects == DriverEnterPlaying \/ EffectsTick

SpecEffects == Init /\ [][NextEffects]_vars

(***************************************************************************)
(* The play loop over every high-score file: the game is constructed on   *)
(* one of HIGH_SCORES_FILES and played (steering and update) until it      *)
(* ends.                                                                   *)
(***************************************************************************)
\* Game.__init__ left by the exception of _load_high_scores (main.py 100):
\* there is no Game object, main() ends before its loop.  The attributes
\* have the values assigned up to that line.
NotConstructed ==
  /\ pc = "not_constructed"
  /\ game_state = MAIN_MENU
  /\ previous_game_state = None
  /\ game_over = FALSE
  /\ running = TRUE
  /\ score = 0
  /\ snake_move_counter = 0
  /\ current_level_index = 0
  /\ high_scores = <<>>
  /\ power_up_active = NoEffects
  /\ player_snake = None
  /\ game_ball = None
  /\ all_bricks = <<>>
  /\ power_ups = <<>>
  /\ level_selection_rects = {}
  /\ ticks = 0
  /\ report = NoReport
  /\ slow_ball_log = NoLog

InitScores ==
  \/ Constructed({ load_high_scores(f) :
                     f \in { g \in HIGH_SCORES_FILES : ~load_high_scores_raises(g) } })
  \/ /\ \E f \in HIGH_SCORES_FILES : load_high_scores_raises(f)
     /\ NotConstructed

Steer == \E key \in Directions : HandlePlayingKey(key)

NextScores == DriverEnterPlaying \/ Steer \/ Update

SpecScores == InitScores /\ [][NextScores]_vars

(***************************************************************************)
(* The paddle on its own: move, grow, handle_input and reset applied to    *)
(* the constructed paddle in every order, as the game and the tests call   *)
(* them.  `ticks` counts the moves, grows and resets made.                 *)
(***************************************************************************)
SnakeOp(kind) ==
  /\ pc = "loop"
  /\ report' = [NoReport EXCEPT !.kind = kind]
  /\ UNCHANGED << pc, game_state, previous_game_state, game_over, running, score,
                  snake_move_counter, current_level_index, high_scores,
                  power_up_active, game_ball, all_bricks, power_ups,
                  level_selection_rects, slow_ball_log >>

SnakeMoveOp ==
  /\ ticks < MaxSnakeOps
  /\ player_snake' = Snake_move(player_snake)
  /\ ticks' = ticks + 1
  /\ SnakeOp("move")

SnakeGrowOp(n) ==
  /\ ticks < MaxSnakeOps
  /\ player_snake' = Snake_grow(player_snake, n)
  /\ ticks' = ticks + 1
  /\ SnakeOp("grow")

SnakeInputOp(key) ==
  /\ player_snake' = Snake_handle_input(player_snake, key)
  /\ ticks' = ticks
  /\ SnakeOp("input")

SnakeResetOp ==
  /\ ticks < MaxSnakeOps
  /\ player_snake' = Snake_reset(player_snake)
  /\ ticks' = ticks + 1
  /\ SnakeOp("reset")

NextSnake ==
  \/ SnakeMoveOp
  \/ \E n \in 1..MaxGrow : SnakeGrowOp(n)
  \/ \E key \in Directions : SnakeInputOp(key)
  \/ SnakeResetOp

SpecSnake == Init /\ [][NextSnake]_vars

(***************************************************************************)
(* Snake.grow called with any integer argument, as its signature allows:   *)
(* moves, turns and grows by GROW_ARGS segments in every order.            *)
(***************************************************************************)
GROW_ARGS == (0 - MaxGrow)..MaxGrow

NextGrow ==
  \/ SnakeMoveOp
  \/ \E n \in GROW_ARGS : SnakeGrowOp(n)
  \/ \E key \in Directions : SnakeInputOp(key)

SpecGrow == Init /\ [][NextGrow]_vars

(***************************************************************************)
(* The ball on its own: Ball.update applied, up to MaxBallSteps times in   *)
(* a row, to a ball placed inside the play area, over the field of any     *)
(* level, with the paddle where it was built, in the top row of its grid   *)
(* or upright.  The paddle stays where it is for the                       *)
(* SNAKE_MOVE_INTERVAL - 1 updates between two moves.  Ball.reset is       *)
(* applied to every ball so obtained.                                      *)
(***************************************************************************)
BALL_XS == {0, 2, 32, screen_width - 2 * BALL_RADIUS - 2, screen_width - 2 * BALL_RADIUS}
BALL_YS == {0, 3, 25, 100, 110, 122, 150, screen_height - 2 * BALL_RADIUS - 2}
BALL_SPEEDS == {-4, -2, 2, 4}

\* The paddle as built; the paddle after it was steered up the left
\* column and along the top row of the grid it moves on; and the paddle two
\* moves after it was turned up or down from where it was built.
PADDLES ==
  LET built == Snake(screen_width \div 2, screen_height - SNAKE_START_MARGIN)
      top == built.initial_y % segment_size
      x == built.initial_x
      y == built.initial_y
  IN { built,
       [built EXCEPT !.body = << <<x, top>>, <<x - segment_size, top>>,
                                 <<x - 2 * segment_size, top>> >>],
       Snake_move(Snake_move(Snake_handle_input(built, "K_UP"))),
       Snake_move(Snake_move(Snake_handle_input(built, "K_DOWN"))) }

PlaceBall ==
  /\ pc = "loop" /\ report.kind = "none"
  /\ \E x \in BALL_XS, y \in BALL_YS, sx \in BALL_SPEEDS, sy \in BALL_SPEEDS :
       game_ball' = [game_ball EXCEPT !.x = x, !.y = y, !.speed_x = sx, !.speed_y = sy]
  /\ player_snake' \in PADDLES
  /\ \E idx \in 0..(Len(ALL_LEVELS) - 1) :
       /\ current_level_index' = idx
       /\ all_bricks' \in create_bricks_layout(ALL_LEVELS[idx + 1], screen_width)
  /\ report' = [NoReport EXCEPT !.kind = "placed"]
  /\ UNCHANGED << pc, game_state, previous_game_state, game_over, running, score,
                  snake_move_counter, high_scores, power_up_active, power_ups,
                  level_selection_rects, ticks, slow_ball_log >>

BallStep ==
  /\ pc = "loop" /\ report.kind \in {"placed", "step"}
  /\ ticks < MaxBallSteps
  /\ ticks < SNAKE_MOVE_INTERVAL - 1
  /\ LET u == Ball_update(game_ball, screen_width, screen_height,
                          player_snake.body, all_bricks)
     IN /\ game_ball' = u.ball
        /\ all_bricks' = u.bricks
        /\ power_ups' = power_ups \o u.spawned
        /\ score' = score + u.points
        /\ report' = [NoReport EXCEPT !.kind = "step", !.broke = u.broke]
  /\ ticks' = ticks + 1
  /\ UNCHANGED << pc, game_state, previous_game_state, game_over, running,
                  snake_move_counter, current_level_index, high_scores,
                  power_up_active, player_snake, level_selection_rects,
                  slow_ball_log >>

BallResetOp ==
  /\ pc = "loop" /\ report.kind \in {"placed", "step"}
  /\ game_ball' = Ball_reset(game_ball)
  /\ report' = [NoReport EXCEPT !.kind = "reset"]
  /\ UNCHANGED << pc, game_state, previous_game_state, game_over, running, score,
                  snake_move_counter, current_level_index, high_scores,
                  power_up_active, player_snake, all_bricks, power_ups,
                  level_selection_rects, ticks, slow_ball_log >>

NextBall == PlaceBall \/ BallStep \/ BallResetOp

SpecBall == Init /\ [][NextBall]_vars

(***************************************************************************)
(* The pickups on their own: the pickup phases of update (the fall, the    *)
(* collection by the head and the effect timers, main.py 368-376) applied  *)
(* tick after tick to pickups that bricks of the field have dropped, with  *)
(* the paddle where it is.  update runs once per pass of the main loop, so *)
(* the tick is taken again and again while it changes anything.            *)
(***************************************************************************)
PICKUP_AGES == {0, 25, 40, 47}

\* The pickup that brick b drops, `age` ticks after the break.
DroppedPickup(b, age) ==
  LET p == PowerUp(b.x + (BRICK_WIDTH \div 2), b.y + (BRICK_HEIGHT \div 2),
                   b.power_up_type)
  IN [p EXCEPT !.y = @ + age * POWER_UP_SPEED]

\* The paddle as built, and the paddle turned up, then left, and moved on:
\* its head is left of the column the pickups fall in, its other segments
\* are under it.
PICKUP_PADDLES ==
  LET built == Snake(screen_width \div 2, screen_height - SNAKE_START_MARGIN)
      up == Snake_move(Snake_handle_input(built, "K_UP"))
  IN { built, Snake_move(Snake_move(Snake_handle_input(up, "K_LEFT"))) }

PlacePickups ==
  /\ pc = "loop" /\ game_state = PLAYING /\ report.kind = "none"
  /\ \E i \in 1..Len(all_bricks), j \in 0..Len(all_bricks),
        a \in PICKUP_AGES, b \in PICKUP_AGES :
       LET first == DroppedPickup(all_bricks[i], a)
           second == IF j = 0 THEN first ELSE DroppedPickup(all_bricks[j], b)
       IN /\ j /= i
          /\ all_bricks[i].power_up_type /= None
          /\ first.y <= screen_height
          /\ j /= 0 => /\ all_bricks[j].power_up_type /= None
                       /\ second.y <= screen_height
          /\ power_ups' = IF j = 0 THEN <<first>> ELSE <<first, second>>
  /\ player_snake' \in PICKUP_PADDLES
  /\ report' = [NoReport EXCEPT !.kind = "pickups"]
  /\ UNCHANGED << pc, game_state, previous_game_state, game_over, running, score,
                  snake_move_counter, current_level_index, high_scores,
                  power_up_active, game_ball, all_bricks, level_selection_rects,
                  ticks, slow_ball_log >>

PickupsTick ==
  /\ pc = "loop" /\ report.kind \in {"pickups", "tick"}
  /\ update_runs(game_state, game_over)
  /\ LET fallen == power_ups_update(power_ups, screen_height)
         c == collect_power_ups(fallen, player_snake, game_ball, power_up_active)
         e == update_power_up_effects(c.ball, c.active)
     IN /\ power_ups' = c.power_ups
        /\ player_snake' = c.snake
        /\ game_ball' = e.ball
        /\ power_up_active' = e.active
        /\ report' = [NoReport EXCEPT !.kind = "tick", !.collected = c.collected,
                                      !.expired = e.expired]
  /\ UNCHANGED << pc, game_state, previous_game_state, game_over, running, score,
                  snake_move_counter, current_level_index, high_scores,
                  all_bricks, level_selection_rects, ticks, slow_ball_log >>

NextPickups == DriverEnterPlaying \/ PlacePickups \/ PickupsTick

SpecPickups == Init /\ [][NextPickups]_vars /\ WF_vars(PickupsTick)

(***************************************************************************)
(* Properties                                                              *)
(***************************************************************************)
\* The tick that update would make from the current state.
this_tick ==
  playing_tick(player_snake, game_ball, all_bricks, power_ups, power_up_active,
               snake_move_counter, score)

\* A step that is one update call in PLAYING.
TickStep ==
  /\ pc = "loop"
  /\ update_runs(game_state, game_over)
  /\ ticks' = ticks + 1

AllActive(bricks) == \A i \in 1..Len(bricks) : bricks[i].is_active

AnchorBody(snake) ==
  << <<snake.initial_x, snake.initial_y>>,
     <<snake.initial_x - segment_size, snake.initial_y>>,
     <<snake.initial_x - 2 * segment_size, snake.initial_y>> >>

\* The state right after a step is a freshly entered PLAYING at level k.
FreshPlaying(k) ==
  /\ pc' = "loop"
  /\ game_state' = PLAYING
  /\ score' = 0
  /\ current_level_index' = k
  /\ ~game_over'
  /\ AllActive(all_bricks')
  /\ player_snake'.body = AnchorBody(player_snake')
  /\ player_snake'.direction = "K_RIGHT"
  /\ player_snake'.grow_pending = 0
  /\ game_ball'.x = game_ball'.initial_x - BALL_RADIUS
  /\ game_ball'.y = game_ball'.initial_y - BALL_RADIUS
  /\ power_ups' = <<>>
  /\ power_up_active' = NoEffects

AllowedModeChanges ==
  { <<MAIN_MENU, PLAYING>>, <<MAIN_MENU, HIGH_SCORES_SCREEN>>,
    <<MAIN_MENU, LEVEL_SELECTION>>, <<HIGH_SCORES_SCREEN, MAIN_MENU>>,
    <<LEVEL_SELECTION, MAIN_MENU>>, <<LEVEL_SELECTION, PLAYING>>,
    <<PLAYING, PAUSED>>, <<PAUSED, PLAYING>>, <<PAUSED, MAIN_MENU>>,
    <<PLAYING, GAME_OVER>>, <<GAME_OVER, PLAYING>> }

\* C1: the mode starts as MAIN_MENU; every step that changes the mode makes
\* one of the eleven listed changes; and a step of update that changes the
\* mode changes it from PLAYING to GAME_OVER.
C1_ModeChanges ==
  /\ game_state = MAIN_MENU
  /\ [][ /\ game_state' /= game_state
              => <<game_state, game_state'>> \in AllowedModeChanges
         /\ (Update /\ game_state' /= game_state)
              => (game_state = PLAYING /\ game_state' = GAME_OVER) ]_vars

\* C1 witness: the menu has been left for the level selection screen, which
\* was drawn, and entered again from it.
C1_Witness ==
  /\ game_state = MAIN_MENU
  /\ level_selection_rects /= {}
  /\ pc = "loop"

\* C2: start-new-game from MAIN_MENU, restart from GAME_OVER and the
\* selection of level k in LEVEL_SELECTION each end in PLAYING with score 0,
\* level 0 (start, restart) or k, the game-over flag false, every brick
\* active, the paddle on its anchor heading right with nothing pending, the
\* ball on its initial position, and no pickup and no timed effect.
C2_PlayingEntryIsFresh ==
  [][ /\ (HandleMenuKey("K_1") \/ HandleGameOverKey("K_r")) => FreshPlaying(0)
      /\ \A key \in KEYS \ {"K_ESCAPE", "K_m"} :
           HandleLevelSelectionKey(key) => FreshPlaying(key_level_idx(key))
      /\ \A idx \in 0..(Len(ALL_LEVELS) - 1) :
           HandleLevelSelectionClick(idx) => FreshPlaying(idx) ]_vars

C4_LevelAdvance ==
  [][ TickStep =>
        IF level_cleared(this_tick.bricks)
          THEN /\ pc' /= "crashed"
               /\ current_level_index' = (current_level_index + 1) % Len(ALL_LEVELS)
               /\ AllActive(all_bricks')
               /\ player_snake'.body = AnchorBody(player_snake')
               /\ game_ball'.x = game_ball'.initial_x - BALL_RADIUS
               /\ game_ball'.y = game_ball'.initial_y - BALL_RADIUS
               /\ power_ups' = <<>>
               /\ score' = this_tick.score
               /\ game_state' = PLAYING
          ELSE current_level_index' = current_level_index ]_vars

\* C5: a tick that clears the field performs the level advance and nothing
\* after it: the update returns with the next level loaded, the mode
\* PLAYING, the game-over flag clear and the high-score list as it was, also
\* when the paddle or the ball is in a game-over position.
C5_ClearSkipsRest ==
  [][ (TickStep /\ level_cleared(this_tick.bricks))
      => /\ pc' /= "crashed"
         /\ current_level_index' = next_level_index(-1, current_level_index)
         /\ game_state' = PLAYING
         /\ ~game_over'
         /\ high_scores' = high_scores ]_vars

\* C6: update in PAUSED changes nothing of the simulation; the pause input
\* and the resume input change nothing of it either, and resume ends in
\* PLAYING: so after pause, any number of updates and resume, the
\* simulation state is the one at the moment of the pause.
C6_PauseFreezes ==
  [][ /\ (game_state = PAUSED /\ Update) => UNCHANGED sim
      /\ (\E key \in {"K_p", "K_ESCAPE"} : ~game_over /\ HandlePlayingKey(key))
           => (game_state' = PAUSED /\ UNCHANGED sim)
      /\ (\E key \in {"K_1", "K_p", "K_ESCAPE"} : HandlePauseKey(key))
           => (game_state' = PLAYING /\ UNCHANGED sim) ]_vars

\* C6 witness: a game with ticks behind it was paused, updated while
\* paused, and resumed.
C6_Witness ==
  /\ game_state = PLAYING /\ previous_game_state = PLAYING
  /\ report.kind = "idle"
  /\ ticks > 0

\* C7: a slow_ball pickup collected while the registry holds a slow_ball
\* entry sets the count to the full duration and leaves the ball's velocity
\* and the stash as they were.
C7_RecollectionKeepsVelocity ==
  [][ ( /\ TickStep
        /\ "slow_ball" \in DOMAIN power_up_active
        /\ count_of(this_tick.collected, "slow_ball") > 0 )
      => /\ this_tick.after_collect.speed_x = game_ball.speed_x
         /\ this_tick.after_collect.speed_y = game_ball.speed_y
         /\ this_tick.after_collect.original = game_ball.original
         /\ this_tick.active_after_collect["slow_ball"] = POWER_UP_DURATION ]_vars

\* C8: when a slow_ball effect that was started at velocity (vx, vy) and
\* not collected again expires, the deactivation leaves the ball with
\* exactly (vx, vy) and without a stash; the ball step of that tick can
\* only invert a component.
C8_ExpiryRestores ==
  [][ ( /\ TickStep
        /\ "slow_ball" \in this_tick.expired
        /\ slow_ball_log.phase = "active"
        /\ slow_ball_log.more = 0 )
      => /\ <<this_tick.after_effects.speed_x, this_tick.after_effects.speed_y>>
              = slow_ball_log.v
         /\ this_tick.after_effects.original = <<>>
         /\ game_ball'.original = <<>>
         /\ game_ball'.speed_x \in {slow_ball_log.v[1], -slow_ball_log.v[1]}
         /\ game_ball'.speed_y \in {slow_ball_log.v[2], -slow_ball_log.v[2]} ]_vars

\* C8 witness: an effect that was collected once has expired in the tick
\* just made.
C8_Witness ==
  /\ slow_ball_log.phase = "expired" /\ slow_ball_log.more = 0
  /\ report.kind = "tick" /\ "slow_ball" \in report.expired
  /\ game_ball.original = <<>>

\* C9: no entry of the registry has the count 0 at the end of a tick: the
\* tick in which a count reaches zero removes the entry.
C9_NoZeroEntryAtTickEnd ==
  \A t \in DOMAIN power_up_active : power_up_active[t] > 0

sign(n) == IF n > 0 THEN 1 ELSE IF n < 0 THEN -1 ELSE 0

\* A component that was not zero is not zero after the halving, has the
\* sign it had, and is its integer half or, where that is 0, 1 or -1.
HalvedInDirection(before, after) ==
  before /= 0 =>
    /\ after /= 0
    /\ sign(after) = sign(before)
    /\ \/ after = before \div 2
       \/ (before \div 2 = 0 /\ after \in {1, -1})

\* C10: every slow_ball activation that halves the velocity leaves each
\* component that was not zero with its sign and not zero.
C10_HalvingKeepsDirection ==
  [][ ( /\ EffectsTick
        /\ report'.collected = <<"slow_ball">>
        /\ ~(effect_get(power_up_active, "slow_ball") > 0) )
      => LET a == activate_power_up("slow_ball", player_snake, game_ball,
                                    power_up_active).ball
         IN /\ HalvedInDirection(game_ball.speed_x, a.speed_x)
            /\ HalvedInDirection(game_ball.speed_y, a.speed_y) ]_vars

\* The bricks of the field that the tick made from the current state breaks.
BrokenThisTick ==
  { i \in 1..Len(all_bricks) :
      all_bricks[i].is_active /\ ~this_tick.bricks[i].is_active }

\* The ball of the tick made from the current state as it enters the brick
\* phase of Ball.update.
BallAtBricks ==
  Ball_snake(Ball_walls(this_tick.after_effects, screen_width, screen_height),
             this_tick.snake.body)

\* The tick made from the current state clears the field.
this_tick_cleared == level_cleared(this_tick.bricks)

\* C11: a PLAYING tick breaks at most one brick, and the score after the
\* tick is the score before it plus the number of bricks the tick broke
\* (1 if the ball broke a brick, 0 otherwise).
C11_ScorePerBrick ==
  [][ TickStep =>
        /\ Cardinality(BrokenThisTick) <= 1
        /\ score' = score + Cardinality(BrokenThisTick) ]_vars

\* C11 witness: a tick has just broken a brick and the score stands at 2
\* after two bricks were broken in two ticks.
C11_Witness ==
  /\ report.kind = "tick"
  /\ report.broke /= 0
  /\ score = 2
  /\ Cardinality({i \in 1..Len(all_bricks) : ~all_bricks[i].is_active}) = 2

\* C12: in a tick that does not load a level, a brick that is inactive
\* stays inactive and the field keeps its bricks; the brick a tick breaks
\* was active before the tick; and when the ball enters the brick phase
\* overlapping no active brick (whatever inactive bricks it overlaps), the
\* phase adds nothing to the score, leaves the ball as it was and spawns no
\* pickup.
C12_BreakIsOneShot ==
  [][ (TickStep /\ ~this_tick_cleared) =>
        /\ Len(all_bricks') = Len(all_bricks)
        /\ \A i \in 1..Len(all_bricks) :
             ~all_bricks[i].is_active => ~all_bricks'[i].is_active
        /\ (~\E i \in 1..Len(all_bricks) :
               /\ all_bricks[i].is_active
               /\ colliderect(BallRect(BallAtBricks), BrickRect(all_bricks[i])))
             => /\ score' = score
                /\ game_ball' = BallAtBricks
                /\ Len(power_ups') <= Len(power_ups) ]_vars

\* C12 witness: a tick has ended with the ball overlapping a broken brick
\* and nothing was broken in it.
C12_Witness ==
  /\ report.kind = "tick"
  /\ report.broke = 0
  /\ \E i \in 1..Len(all_bricks) :
       /\ ~all_bricks[i].is_active
       /\ colliderect(BallRect(game_ball), BrickRect(all_bricks[i]))

\* A step that enters GAME_OVER.
EntersGameOver == game_state /= GAME_OVER /\ game_state' = GAME_OVER

ThisRecord(s) == [name |-> "PLY", score |-> s]

\* The number of records of the list with a score of at least s.
RankedAbove(list, s) == Cardinality({i \in 1..Len(list) : list[i].score >= s})

C14_SortedAndBounded ==
  /\ Len(high_scores) <= MAX_HIGH_SCORES
  /\ \A i \in 1..(Len(high_scores) - 1) :
       high_scores[i].score >= high_scores[i + 1].score

\* The state right after a step has the field, the paddle, the ball and
\* the pickups as a level load leaves them.
ElementsReset ==
  /\ AllActive(all_bricks')
  /\ player_snake'.body = AnchorBody(player_snake')
  /\ player_snake'.direction = "K_RIGHT"
  /\ player_snake'.grow_pending = 0
  /\ game_ball'.x = game_ball'.initial_x - BALL_RADIUS
  /\ game_ball'.y = game_ball'.initial_y - BALL_RADIUS
  /\ power_ups' = <<>>
  /\ power_up_active' = NoEffects

\* C15: the restart-level key (K_2) in PAUSED leaves the game running in
\* PLAYING at level index 0 with the score it had, and with the field,
\* the paddle, the ball and the pickups reset.
C15_RestartLevel ==
  [][ (game_state = PAUSED /\ HandlePauseKey("K_2")) =>
        /\ pc' = "loop"
        /\ game_state' = PLAYING
        /\ current_level_index' = 0
        /\ score' = score
        /\ ElementsReset ]_vars

\* The paddle of the tick made from the current state after its move phase.
SnakeAfterMove ==
  IF this_tick.moved THEN Snake_move(player_snake) ELSE player_snake

\* C16: the registry never holds a key other than slow_ball; in every tick
\* the paddle's grow_pending ends 2 above its value after the move phase for
\* every wider_paddle pickup collected, and a tick that collects no
\* slow_ball pickup leaves the registry, as the collection phase ends, as it
\* was.
C16_WiderPaddleIsUntimed ==
  /\ [](DOMAIN power_up_active \subseteq {"slow_ball"})
  /\ [][ TickStep =>
           /\ player_snake'.grow_pending =
                SnakeAfterMove.grow_pending
                  + 2 * count_of(this_tick.collected, "wider_paddle")
           /\ count_of(this_tick.collected, "slow_ball") = 0
                => this_tick.active_after_collect = power_up_active ]_vars

\* C16 witness: a tick has just collected a wider_paddle pickup, no effect
\* is registered and the paddle has growth pending.
C16_Witness ==
  /\ report.kind = "tick"
  /\ count_of(report.collected, "wider_paddle") = 1
  /\ power_up_active = NoEffects
  /\ player_snake.grow_pending = 2

Opposite(d) ==
  CASE d = "K_UP" -> "K_DOWN"
    [] d = "K_DOWN" -> "K_UP"
    [] d = "K_LEFT" -> "K_RIGHT"
    [] d = "K_RIGHT" -> "K_LEFT"

\* C18: an arrow key handled while playing sets the paddle's direction to
\* the key's direction unless that is the opposite of the current one, in
\* which case the direction stays and the game goes on; the body and
\* grow_pending are not changed.
C18_DirectionInput ==
  [][ \A k \in Directions :
        (game_state = PLAYING /\ ~game_over /\ HandlePlayingKey(k)) =>
          /\ player_snake'.direction =
               IF k = Opposite(player_snake.direction)
                 THEN player_snake.direction ELSE k
          /\ player_snake'.body = player_snake.body
          /\ player_snake'.grow_pending = player_snake.grow_pending
          /\ pc' = "loop" ]_vars

\* C18 witness: the paddle, built heading right, heads left while playing:
\* the request for left was refused until the paddle had turned up or down.
C18_Witness ==
  /\ game_state = PLAYING
  /\ player_snake.direction = "K_LEFT"


Offset(d) ==
  CASE d = "K_UP" -> <<0, -segment_size>>
    [] d = "K_DOWN" -> <<0, segment_size>>
    [] d = "K_LEFT" -> <<-segment_size, 0>>
    [] d = "K_RIGHT" -> <<segment_size, 0>>

\* C17: the paddle has at least 3 segments in every state; a move never
\* makes it shorter, and neither does any other operation but reset.
C17_AtLeastThreeSegments ==
  /\ [](Len(player_snake.body) >= 3)
  /\ [][ ~SnakeResetOp => Len(player_snake'.body) >= Len(player_snake.body) ]_vars

\* C17 witness: the paddle has just moved and is longer than it was built.
C17_Witness ==
  /\ report.kind = "move"
  /\ Len(player_snake.body) > 3

\* C19: a move puts the new head one segment from the old head in the
\* current direction, in front of the old segments; with growth pending the
\* paddle gets one segment longer and the pending growth one smaller,
\* without it the length stays; grow(n) adds n to the pending growth and
\* leaves the body.
C19_MoveAndGrow ==
  /\ [][ SnakeMoveOp =>
           LET old == player_snake
               new == player_snake'
               growing == old.grow_pending > 0
           IN /\ new.body[1] = << old.body[1][1] + Offset(old.direction)[1],
                                  old.body[1][2] + Offset(old.direction)[2] >>
              /\ Len(new.body) = Len(old.body) + (IF growing THEN 1 ELSE 0)
              /\ \A i \in 2..Len(new.body) : new.body[i] = old.body[i - 1]
              /\ new.grow_pending = old.grow_pending - (IF growing THEN 1 ELSE 0)
              /\ new.direction = old.direction ]_vars
  /\ [][ \A n \in 1..MaxGrow :
           SnakeGrowOp(n) =>
             /\ player_snake'.grow_pending = player_snake.grow_pending + n
             /\ player_snake'.body = player_snake.body ]_vars

\* C19 witness: after grow(2) and two moves the paddle is two segments
\* longer than it was built and no growth is pending.
C19_Witness ==
  /\ report.kind = "move"
  /\ ticks = 3
  /\ Len(player_snake.body) = 5
  /\ player_snake.grow_pending = 0

\* The ball of the current state after the translation of Ball.update.
Translated ==
  [game_ball EXCEPT !.x = @ + game_ball.speed_x, !.y = @ + game_ball.speed_y]

\* C20: a step of the ball whose translation takes its right edge to the
\* width or beyond ends with speed_x < 0 and the right edge within the
\* width; one that takes its left edge to 0 or below ends with speed_x > 0
\* and the left edge at 0 or more; one that takes its top edge to 0 or above
\* it ends with speed_y > 0 and the top edge at 0 or more.
C20_WallBounce ==
  [][ BallStep =>
        /\ Translated.x + 2 * BALL_RADIUS >= screen_width
             => /\ game_ball'.speed_x < 0
                /\ game_ball'.x + 2 * BALL_RADIUS <= screen_width
        /\ Translated.x <= 0
             => /\ game_ball'.speed_x > 0
                /\ game_ball'.x >= 0
        /\ Translated.y <= 0
             => /\ game_ball'.speed_y > 0
                /\ game_ball'.y >= 0 ]_vars

\* The ball of the current state after the wall phase of Ball.update.
AfterWalls == Ball_walls(game_ball, screen_width, screen_height)

\* The paddle segments, by their place in the body, that the ball overlaps
\* as it enters the paddle phase of Ball.update.
SegmentsHit ==
  { i \in 1..Len(player_snake.body) :
      colliderect(BallRect(AfterWalls), SegRect(player_snake.body[i])) }

FirstHit == CHOOSE i \in SegmentsHit : \A j \in SegmentsHit : i <= j

\* C21: in a step in which the ball overlaps paddle segments and breaks no
\* brick, the vertical velocity is inverted once, the ball's bottom edge is
\* on the top edge of the first overlapped segment in body order, and the
\* ball ends clear of every segment it overlapped.
C21_OnePaddleBounce ==
  [][ (BallStep /\ SegmentsHit /= {} /\ report'.broke = 0) =>
        /\ game_ball'.speed_y = -AfterWalls.speed_y
        /\ game_ball'.y + 2 * BALL_RADIUS = player_snake.body[FirstHit][2]
        /\ \A i \in SegmentsHit :
             ~colliderect(BallRect(game_ball'), SegRect(player_snake.body[i])) ]_vars

\* The pickups of the current state after one fall.
Fallen ==
  [i \in 1..Len(power_ups) |->
     [power_ups[i] EXCEPT !.y = @ + POWER_UP_SPEED]]

BelowScreen(p) == p.y > screen_height

AtHead(p) == colliderect(SegRect(player_snake.body[1]), PowerUpRect(p))

\* C22: in every tick each pickup falls by POWER_UP_SPEED and keeps its x;
\* the pickups that stay are those that, after the fall, are neither below
\* the play height nor overlapped by the head segment; the types activated
\* are those of the pickups on the screen that the head overlaps, each once
\* (2 segments of growth per wider_paddle); and every pickup is removed in
\* the end.
C22_PickupLifecycle ==
  /\ [][ PickupsTick =>
           LET taken == SelectSeq(Fallen, LAMBDA p : ~BelowScreen(p) /\ AtHead(p))
           IN /\ power_ups' =
                   SelectSeq(Fallen, LAMBDA p : ~BelowScreen(p) /\ ~AtHead(p))
              /\ report'.collected = [i \in 1..Len(taken) |-> taken[i].type]
              /\ player_snake'.grow_pending =
                   player_snake.grow_pending
                     + 2 * Cardinality({i \in 1..Len(taken) :
                                          taken[i].type = "wider_paddle"}) ]_vars
  /\ (power_ups /= <<>>) ~> (power_ups = <<>>)

\* C22 witness: a tick has collected one pickup with the head while another
\* pickup is still falling.
C22_Witness ==
  /\ report.kind = "tick"
  /\ Len(report.collected) = 1
  /\ Len(power_ups) = 1

\* A pickup overlaps a segment of the paddle other than the head, not the
\* head, and is still in the collection after the tick.
C22_WitnessBody ==
  /\ report.kind = "tick"
  /\ \E i \in 1..Len(power_ups), k \in 2..Len(player_snake.body) :
       /\ colliderect(SegRect(player_snake.body[k]), PowerUpRect(power_ups[i]))
       /\ ~AtHead(power_ups[i])

\* The cells of the level the field was built from.
FieldCells ==
  LET level_data == ALL_LEVELS[current_level_index + 1]
      num_level_cols == Len(level_data[1])
      total_bricks_width ==
        num_level_cols * BRICK_WIDTH + (num_level_cols - 1) * BRICK_PADDING
  IN LevelCells(level_data, 0, (screen_width - total_bricks_width) \div 2)

\* C23: every brick of the field built from the code 'P' has a power-up
\* type; a step that breaks a brick with a type adds exactly one pickup of
\* that type, centred on the brick, and a step that breaks a brick without
\* a type adds none.
C23_PowerUpBricksSpawn ==
  /\ [](/\ Len(all_bricks) = Len(FieldCells)
        /\ \A i \in 1..Len(all_bricks) :
             FieldCells[i].code = "P" => all_bricks[i].power_up_type \in POWER_UP_TYPES)
  /\ [][ (BallStep /\ report'.broke /= 0) =>
           LET brick == all_bricks[report'.broke]
           IN /\ brick.is_active /\ ~all_bricks'[report'.broke].is_active
              /\ IF brick.power_up_type = None
                   THEN power_ups' = power_ups
                   ELSE /\ Len(power_ups') = Len(power_ups) + 1
                        /\ SubSeq(power_ups', 1, Len(power_ups)) = power_ups
                        /\ LET p == power_ups'[Len(power_ups')]
                           IN /\ p.type = brick.power_up_type
                              /\ p.x + (POWER_UP_SIZE \div 2)
                                   = brick.x + (BRICK_WIDTH \div 2)
                              /\ p.y + (POWER_UP_SIZE \div 2)
                                   = brick.y + (BRICK_HEIGHT \div 2) ]_vars

\* C23 witness: a step has broken the brick of the level made of one 'S'
\* cell, which had no type, and no pickup was spawned.
C23_Witness ==
  /\ report.kind = "step"
  /\ report.broke /= 0
  /\ all_bricks[report.broke].power_up_type = None
  /\ power_ups = <<>>

\* A step has broken a 'P' brick and its pickup is in the collection.
C23_WitnessTyped ==
  /\ report.kind = "step"
  /\ report.broke /= 0
  /\ FieldCells[report.broke].code = "P"
  /\ Len(power_ups) = 1

\* C24: reset leaves the paddle with the three segments at its anchor (the
\* head on it, the others one and two segments to its left), heading
\* right, with no growth pending, whatever it was before; and a second
\* reset would change nothing.
C24_SnakeReset ==
  [][ SnakeResetOp =>
        /\ player_snake'.body =
             << <<player_snake.initial_x, player_snake.initial_y>>,
                <<player_snake.initial_x - segment_size, player_snake.initial_y>>,
                <<player_snake.initial_x - 2 * segment_size, player_snake.initial_y>> >>
        /\ player_snake'.direction = "K_RIGHT"
        /\ player_snake'.grow_pending = 0
        /\ player_snake'.initial_x = player_snake.initial_x
        /\ player_snake'.initial_y = player_snake.initial_y
        /\ Snake_reset(player_snake') = player_snake' ]_vars

\* A step that resets a paddle that has moved away, turned and has growth
\* pending.
ResetsChangedSnake ==
  /\ SnakeResetOp
  /\ player_snake.body[1] /= <<player_snake.initial_x, player_snake.initial_y>>
  /\ player_snake.direction /= "K_RIGHT"
  /\ player_snake.grow_pending > 0

\* C24 witness: the paddle has been reset after three other operations and
\* is at its anchor.
C24_Witness ==
  /\ report.kind = "reset"
  /\ ticks = 4
  /\ player_snake.body[1] = <<player_snake.initial_x, player_snake.initial_y>>

\* C25: reset puts the centre of the ball on its stored initial centre and
\* leaves both components of the velocity, whatever the position and the
\* velocity were.
C25_BallReset ==
  [][ BallResetOp =>
        /\ game_ball'.x + BALL_RADIUS = game_ball.initial_x
        /\ game_ball'.y + BALL_RADIUS = game_ball.initial_y
        /\ game_ball'.speed_x = game_ball.speed_x
        /\ game_ball'.speed_y = game_ball.speed_y
        /\ game_ball'.initial_x = game_ball.initial_x
        /\ game_ball'.initial_y = game_ball.initial_y ]_vars

\* C25 witness: a ball that was not moving at its initial velocity has been
\* reset and is on its initial centre.
C25_Witness ==
  /\ report.kind = "reset"
  /\ game_ball.x + BALL_RADIUS = game_ball.initial_x
  /\ game_ball.y + BALL_RADIUS = game_ball.initial_y
  /\ game_ball.speed_x = -2
  /\ game_ball.speed_y = 2

\* C26: whatever the high-score file holds, the game is constructed (the
\* loader does not end startup), and the list in memory holds only records
\* with a score.
C26_LoadNeverFails ==
  /\ pc /= "not_constructed"
  /\ \A i \in 1..Len(high_scores) : "score" \in DOMAIN high_scores[i]


\* C27: grow(n) with n <= 0 leaves grow_pending as it was, and grow_pending
\* is never negative (so that a later grow(m) gives m segments of growth).
C27_GrowNonPositiveIsNoOp ==
  /\ [][(\E n \in GROW_ARGS : n <= 0 /\ SnakeGrowOp(n))
          => player_snake'.grow_pending = player_snake.grow_pending]_vars
  /\ [](player_snake.grow_pending >= 0)


\* The number of bricks of a field that are not active.
Inactive(bricks) == Cardinality({ i \in 1..Len(bricks) : ~bricks[i].is_active })

C28_WitnessCleared ==
  /\ report.kind = "tick"
  /\ report.cleared
  /\ score = 3
  /\ Inactive(all_bricks) = 0


\* The ball of the current state as it enters the brick phase of
\* Ball.update, after the wall and paddle phases.
EntersBricks == Ball_snake(AfterWalls, player_snake.body)

\* C29: a step that breaks a brick leaves a ball that came down onto the
\* brick with its bottom edge on the brick's top edge, moving up, and a ball
\* that came up against the brick with its top edge on the brick's bottom
\* edge, moving down.
C29_FlushOnStruckEdge ==
  [][ (BallStep /\ report'.broke /= 0) =>
        LET brick == all_bricks[report'.broke]
        IN /\ EntersBricks.speed_y > 0 =>
                /\ game_ball'.y + 2 * BALL_RADIUS = brick.y
                /\ game_ball'.speed_y < 0
           /\ EntersBricks.speed_y < 0 =>
                /\ game_ball'.y = brick.y + BRICK_HEIGHT
                /\ game_ball'.speed_y > 0 ]_vars


\* C30: a step whose translation takes the ball's bottom edge beyond the
\* play height, with the ball touching no paddle segment and breaking no
\* brick, leaves the ball at the translated y with speed_y unchanged,
\* whether or not it bounces off a side wall.
C30_BottomNotHandled ==
  [][ ( /\ BallStep
        /\ Translated.y + 2 * BALL_RADIUS > screen_height
        /\ SegmentsHit = {}
        /\ \A i \in 1..Len(player_snake.body) :
             ~colliderect(BallRect(Translated), SegRect(player_snake.body[i]))
        /\ report'.broke = 0 )
      => /\ game_ball'.y = Translated.y
         /\ game_ball'.speed_y = game_ball.speed_y ]_vars


\* The pickups that the collection phase of the tick made from the current
\* state finds on the head: those that, after their fall, are on the screen
\* and overlap the head segment of the paddle as its move phase left it.
OnSteppedHead ==
  { i \in 1..Len(power_ups) :
      /\ ~BelowScreen(Fallen[i])
      /\ colliderect(SegRect(SnakeAfterMove.body[1]), PowerUpRect(Fallen[i])) }

\* The ball of the current state with its stashed speed given back.
Restored ==
  [game_ball EXCEPT !.speed_x = game_ball.original[1],
                    !.speed_y = game_ball.original[2],
                    !.original = <<>>]

\* C31: the phases of a PLAYING tick run in the order paddle step, pickup
\* motion and collection, timer decrement, ball step, score, level-clear
\* check, game-over check.  The pickups collected are those on the head of
\* the paddle after its step; a slow_ball pickup collected in a tick is
\* armed before the timers are looked at, so the entry is not expired in
\* that tick and ends it at POWER_UP_DURATION - 1, above zero, with the
\* ball still slowed; an expiry gives the ball its stashed speed before the
\* ball step is made, on the paddle as the tick leaves it; the score counts the brick the ball step broke; a tick
\* that clears the field makes no game-over decision, and any other tick
\* decides game over on the paddle and the ball as the ball step left
\* them.
C31_TickOrder ==
  [][ TickStep =>
        /\ Len(report'.collected) = Cardinality(OnSteppedHead)
        /\ count_of(report'.collected, "slow_ball") > 0 =>
              /\ "slow_ball" \notin report'.expired
              /\ "slow_ball" \in DOMAIN power_up_active'
              /\ power_up_active'["slow_ball"] = POWER_UP_DURATION - 1
              /\ power_up_active'["slow_ball"] > 0
              /\ game_ball'.original /= <<>>
        /\ ( /\ "slow_ball" \in report'.expired
             /\ game_ball.original /= <<>> )
           => game_ball' = Ball_update(Restored, screen_width, screen_height,
                                       player_snake'.body, all_bricks).ball
        /\ score' = score + (IF report'.broke /= 0 THEN 1 ELSE 0)
        /\ report'.cleared => (game_state' = PLAYING /\ high_scores' = high_scores)
        /\ ~report'.cleared =>
             ( game_state' = GAME_OVER <=>
                 is_game_over(player_snake', game_ball', screen_width, screen_height) )
    ]_vars

\* C31 witness: a slow_ball pickup was collected in the tick just made
\* while the registry held the slow_ball entry at 0, the tick of its
\* expiry: the ball was halved a second time and the entry stands at
\* POWER_UP_DURATION - 1.
C31_Witness ==
  /\ report.kind = "tick"
  /\ count_of(report.collected, "slow_ball") > 0
  /\ slow_ball_log.more > 0
  /\ game_ball.original /= <<>>
  /\ game_ball.original[1] \in {4, -4}
  /\ game_ball.speed_x \in {1, -1}
  /\ power_up_active["slow_ball"] = POWER_UP_DURATION - 1


\* C32: the move counter is in 0..SNAKE_MOVE_INTERVAL - 1 in every state; a
\* PLAYING update steps the paddle, by one segment in its direction, exactly
\* when it is a SNAKE_MOVE_INTERVAL-th PLAYING update since the level was
\* loaded, and leaves the body alone otherwise; an update in any other mode
\* leaves the paddle and the counter as they were.
C32_PaddleStepsEveryKth ==
  /\ [](snake_move_counter \in 0..(SNAKE_MOVE_INTERVAL - 1))
  /\ [][ TickStep =>
           /\ report'.moved <=> (ticks' % SNAKE_MOVE_INTERVAL = 0)
           /\ snake_move_counter' = ticks' % SNAKE_MOVE_INTERVAL
           /\ report'.moved =>
                /\ player_snake'.body[1][1] =
                     player_snake.body[1][1] + Offset(player_snake.direction)[1]
                /\ player_snake'.body[1][2] =
                     player_snake.body[1][2] + Offset(player_snake.direction)[2]
           /\ ~report'.moved => player_snake'.body = player_snake.body ]_vars
  /\ [][ UpdateIdle =>
           /\ player_snake' = player_snake
           /\ snake_move_counter' = snake_move_counter ]_vars

\* C32 witness: the tenth PLAYING update has just made the second step of
\* the paddle.
C32_Witness ==
  /\ report.kind = "tick" /\ report.moved
  /\ ticks = 2 * SNAKE_MOVE_INTERVAL
  /\ snake_move_counter = 0

\* C32 witness: an update was made in PAUSED between two steps of the
\* paddle.
C32_WitnessPaused ==
  /\ report.kind = "idle" /\ game_state = PAUSED
  /\ snake_move_counter = 3


\* A step that loads a level to enter PLAYING: new game, restart after game
\* over, level selection by key or click, restart from the pause menu, or
\* the advance made by the tick that clears the field.
LoadsLevelForPlaying ==
  \/ HandleMenuKey("K_1")
  \/ HandleGameOverKey("K_r")
  \/ \E key \in KEYS \ {"K_ESCAPE", "K_m"} : HandleLevelSelectionKey(key)
  \/ \E idx \in 0..(Len(ALL_LEVELS) - 1) : HandleLevelSelectionClick(idx)
  \/ HandlePauseKey("K_2")
  \/ (TickStep /\ this_tick_cleared)

\* C33: every step that loads a level to enter PLAYING leaves the ball with
\* the initial velocity and without a stashed velocity.
C33_BallFreshOnEntry ==
  [][ LoadsLevelForPlaying =>
        /\ game_ball'.speed_x = BALL_SPEED_X_INITIAL
        /\ game_ball'.speed_y = BALL_SPEED_Y_INITIAL
        /\ game_ball'.original = <<>> ]_vars


\* C34: a step of the paddle never goes opposite to its previous step: the
\* new head is never put on the segment that was second in the body,
\* whatever keys were handled since the previous step.
C34_NoReversalBetweenSteps ==
  [][ (TickStep /\ report'.moved) =>
        player_snake'.body[1] /= player_snake.body[2] ]_vars


Magnitude(n) == IF n < 0 THEN 0 - n ELSE n

\* C35: in every state each component of the ball's velocity has the
\* magnitude of the initial velocity, which bounces keep, or the single
\* halving of it.
C35_NoStackedHalving ==
  /\ Magnitude(game_ball.speed_x) \in
       { Magnitude(BALL_SPEED_X_INITIAL), Magnitude(BALL_SPEED_X_INITIAL) \div 2 }
  /\ Magnitude(game_ball.speed_y) \in
       { Magnitude(BALL_SPEED_Y_INITIAL), Magnitude(BALL_SPEED_Y_INITIAL) \div 2 }


\* C36: in every state between two calls of the loop the ball carries a
\* stashed velocity exactly when the registry holds a slow_ball entry; with
\* no entry the ball has the magnitude of the initial velocity on both axes.
C36_StashIffEntry ==
  /\ (game_ball.original /= <<>>) <=> ("slow_ball" \in DOMAIN power_up_active)
  /\ "slow_ball" \notin DOMAIN power_up_active =>
       /\ Magnitude(game_ball.speed_x) = Magnitude(BALL_SPEED_X_INITIAL)
       /\ Magnitude(game_ball.speed_y) = Magnitude(BALL_SPEED_Y_INITIAL)

\* C36 witness: a tick ends with the slow_ball entry in the registry and
\* the stash on the slowed ball.
C36_Witness ==
  /\ report.kind = "tick"
  /\ "slow_ball" \in DOMAIN power_up_active
  /\ game_ball.original = <<BALL_SPEED_X_INITIAL, BALL_SPEED_Y_INITIAL>>
  /\ Magnitude(game_ball.speed_x) = 2

\* C36 witness: the tick just made expired the effect: no entry, no stash,
\* and the ball at full speed.
C36_WitnessExpired ==
  /\ report.kind = "tick" /\ "slow_ball" \in report.expired
  /\ power_up_active = NoEffects
  /\ game_ball.original = <<>>
  /\ Magnitude(game_ball.speed_x) = 4


\* C37: every level load made after construction (new game, restart after
\* game over, level selection, restart and abandon from the pause menu,
\* the advance of a cleared field) returns, and leaves the paddle and the
\* ball on their anchors.
C37_LevelLoadCompletes ==
  [][ (LoadsLevelForPlaying \/ HandlePauseKey("K_3")) =>
        /\ pc' /= "crashed"
        /\ player_snake'.body = AnchorBody(player_snake')
        /\ game_ball'.x = game_ball'.initial_x - BALL_RADIUS
        /\ game_ball'.y = game_ball'.initial_y - BALL_RADIUS ]_vars


EntersGameOverNow ==
  TickStep /\ game_state = PLAYING /\ game_state' = GAME_OVER

\* A step that is an update which calls _check_and_add_high_score.
AddsRecord == TickStep /\ report'.over

\* C39 as stated: the high-score list changes only in the update that takes
\* PLAYING to GAME_OVER; that update makes the one call that adds a record
\* and writes the list, and the list has one record more, the record of the
\* game; no step taken in GAME_OVER, updates included, changes the list or
\* makes the call again.
C39_OneRecordAdded ==
  [][ /\ (high_scores' /= high_scores \/ AddsRecord) => EntersGameOverNow
      /\ EntersGameOverNow =>
           /\ AddsRecord
           /\ Len(high_scores') = Len(high_scores) + 1
           /\ \E i \in 1..Len(high_scores') : high_scores'[i] = ThisRecord(score')
      /\ game_state = GAME_OVER =>
           (high_scores' = high_scores /\ ~AddsRecord) ]_vars

\* C39 amended: the list changes only in the update that takes PLAYING to
\* GAME_OVER; that update makes the one call, which adds the record of the
\* game and cuts the list to MAX_HIGH_SCORES: the list has one record more
\* when it had fewer than MAX_HIGH_SCORES and MAX_HIGH_SCORES records
\* otherwise, and the record of the game is missing from it only when
\* MAX_HIGH_SCORES records with at least that score are kept; no step
\* taken in GAME_OVER, updates included, changes the list or makes the
\* call again.
C39_OneCallPerGameOver ==
  [][ /\ (high_scores' /= high_scores \/ AddsRecord) => EntersGameOverNow
      /\ EntersGameOverNow =>
           /\ AddsRecord
           /\ Len(high_scores') =
                IF Len(high_scores) < MAX_HIGH_SCORES
                  THEN Len(high_scores) + 1 ELSE MAX_HIGH_SCORES
           /\ \/ \E i \in 1..Len(high_scores') : high_scores'[i] = ThisRecord(score')
              \/ /\ Len(high_scores') = MAX_HIGH_SCORES
                 /\ \A i \in 1..Len(high_scores') : high_scores'[i].score >= score'
      /\ game_state = GAME_OVER =>
           (high_scores' = high_scores /\ ~AddsRecord) ]_vars

\* C39 witness: an update was made in GAME_OVER after the game ended, and
\* the list holds the one record of that game.
C39_Witness ==
  /\ game_state = GAME_OVER
  /\ report.kind = "idle"
  /\ Len(high_scores) = 1
  /\ high_scores[1].score = score

\* C39 witness: an update was made in GAME_OVER after a game whose record
\* did not stay in the full list.
C39_WitnessCut ==
  /\ game_state = GAME_OVER
  /\ report.kind = "idle"
  /\ Len(high_scores) = MAX_HIGH_SCORES
  /\ \A i \in 1..Len(high_scores) : high_scores[i].score > score


LevelIndexes == 0..(Len(ALL_LEVELS) - 1)

\* The arguments _load_level is called with: -1 for the next level, or an
\* index.
LoadLevelArgs == (-1)..9

\* C40: in every state the level index is an index of ALL_LEVELS, and so is
\* every index a click can select; the index _load_level settles on is an
\* index of ALL_LEVELS for every argument and every current index, and is 0
\* for the level after the last; a key of the level selection screen loads
\* a level only when its index is one of ALL_LEVELS, and that index is the
\* one loaded.
C40_LevelIndexInRange ==
  /\ [](/\ current_level_index \in LevelIndexes
        /\ level_selection_rects \subseteq LevelIndexes)
  /\ [](/\ \A k \in LoadLevelArgs, c \in LevelIndexes :
             next_level_index(k, c) \in LevelIndexes
        /\ next_level_index(-1, Len(ALL_LEVELS) - 1) = 0)
  /\ [][ \A key \in KEYS \ {"K_ESCAPE", "K_m"} :
           HandleLevelSelectionKey(key) =>
             /\ key_level_idx(key) \in LevelIndexes
             /\ current_level_index' = key_level_idx(key) ]_vars

\* C40 witness: the tick that cleared the first field has set the index of
\* the last level.
C40_Witness ==
  /\ report.kind = "tick" /\ report.cleared
  /\ current_level_index = Len(ALL_LEVELS) - 1

\* C40 witness: the last level was chosen on the level selection screen.
C40_WitnessSelected ==
  /\ game_state = LEVEL_SELECTION
  /\ current_level_index = Len(ALL_LEVELS) - 1

=============================================================================
